---------------------------- MODULE Spec2Model ----------------------------
(***************************************************************************)
(* A model of rbx_dom_weak's WeakDom (src/rbx_dom_weak/src/dom.rs) and     *)
(* RbxInstance (src/rbx_dom_weak/src/instance.rs).                         *)
(*                                                                         *)
(* A program holds up to MaxDoms WeakDom values (the slots 1..MaxDoms are  *)
(* the caller's variables) and makes up to MaxCalls calls of the public    *)
(* operations on them.  An operation that panics, or that never returns,   *)
(* ends the run: the state it leaves behind is recorded, and nothing is    *)
(* called after it.  So every state whose last outcome is "ok" is the      *)
(* result of a sequence of calls that all returned normally.               *)
(*                                                                         *)
(* The second part models rbx_xml's decode                                 *)
(* (src/rbx_xml/src/deserializer.rs): a document arrives as the stream of  *)
(* events the XML parser produces for it, and decode inserts the instances *)
(* of its Items into a WeakDom.                                            *)
(***************************************************************************)
EXTENDS Integers, Sequences, FiniteSets, TLC

VARIABLES
    doms,     \* slot -> WeakDom, for the slots that hold a DOM
    nextRef,  \* the next value Ref::new() hands out
    last,     \* the inspected call: operation, arguments, outcome, DOMs before
    calls,    \* the number of calls made
    events,   \* the events the XML parser yields for the document
    open,     \* the elements of the document that are not closed yet
    result    \* what decode did with the document

xmlvars == <<events, open, result>>
vars == <<doms, nextRef, last, calls, events, open, result>>

----------------------------------------------------------------------------
(* Bounds *)

MaxRefs == 4     \* Ref::new() is called at most MaxRefs times
MaxDoms == 2     \* WeakDom values alive at once
MaxCalls == 7    \* calls in a run, the inspected one included
MaxNodes == 3    \* elements and runs of text inside the root of a document
MaxItems == 2    \* Items of a document with properties
MaxProps == 2    \* property elements of a document with properties

Slots == 1..MaxDoms

\* Iterations of Descendants::next the model follows before it reports that the
\* iteration does not end.  On a DOM of n instances where no instance is listed
\* in two children lists, an iteration that ends yields at most n instances.
IterFuel == 2 * MaxRefs + 2

----------------------------------------------------------------------------
(* Ref and Option<Ref> *)

NullRef == 0                 \* Ref::none(): the id of no instance
None    == <<>>              \* Option::None
Some(r) == <<r>>             \* Option::Some(r)
Unwrap(o) == o[1]

\* Ref::new(): a value never handed out before.
NewRef == nextRef

----------------------------------------------------------------------------
(* Sequences *)

Last(s)    == s[Len(s)]
Front(s)   == SubSeq(s, 1, Len(s) - 1)
Range(s)   == {s[i] : i \in 1..Len(s)}
Count(s, x) == Cardinality({i \in 1..Len(s) : s[i] = x})
Take(s, n) == SubSeq(s, 1, IF n < Len(s) THEN n ELSE Len(s))

\* Vec::retain(|&id| id != x)
Retain(s, x) == SelectSeq(s, LAMBDA e : e # x)

----------------------------------------------------------------------------
(* HashMap<Ref, RbxInstance> *)

EmptyMap == [r \in {} |-> None]
MapInsert(m, k, v) == (k :> v) @@ m
MapRemove(m, k)    == [r \in (DOMAIN m) \ {k} |-> m[r]]

----------------------------------------------------------------------------
(* RbxInstance and WeakDom *)

\* RbxInstance::new: parent None, no children.
RbxInstance_new(id) == [id |-> id, parent |-> None, children |-> <<>>]

\* WeakDom::get_instance(id).is_some()
Has(t, id) == id \in DOMAIN t.instances

\* WeakDom::new, given the Ref that RbxInstance::new drew.
WeakDom_new(id) ==
    [instances |-> MapInsert(EmptyMap, id, RbxInstance_new(id)), root_ref |-> id]

\* orphan_instance: removes orphan_id from its parent's children.
orphan_instance(t, orphan_id) ==
    IF ~Has(t, orphan_id) THEN [ok |-> FALSE, tree |-> t]
    ELSE LET parent == t.instances[orphan_id].parent IN
         IF parent = None THEN [ok |-> FALSE, tree |-> t]
         ELSE LET parent_id == Unwrap(parent) IN
              IF ~Has(t, parent_id) THEN [ok |-> FALSE, tree |-> t]
              ELSE [ok   |-> TRUE,
                    tree |-> [t EXCEPT !.instances[parent_id].children =
                                           Retain(@, orphan_id)]]

\* unorphan_instance with the id put in front of the parent's children
\* instead of pushed at their end.
unorphan_instance_front(t, id, parent_id) ==
    IF ~Has(t, id) THEN [ok |-> FALSE, tree |-> t]
    ELSE LET t1 == [t EXCEPT !.instances[id].parent = Some(parent_id)] IN
         IF ~Has(t1, parent_id) THEN [ok |-> FALSE, tree |-> t1]
         ELSE [ok   |-> TRUE,
               tree |-> [t1 EXCEPT !.instances[parent_id].children =
                                       <<id>> \o @]]

\* unorphan_instance pushing the id twice on the parent's children.
unorphan_instance_twice(t, id, parent_id) ==
    IF ~Has(t, id) THEN [ok |-> FALSE, tree |-> t]
    ELSE LET t1 == [t EXCEPT !.instances[id].parent = Some(parent_id)] IN
         IF ~Has(t1, parent_id) THEN [ok |-> FALSE, tree |-> t1]
         ELSE [ok   |-> TRUE,
               tree |-> [t1 EXCEPT !.instances[parent_id].children =
                                       Append(Append(@, id), id)]]

\* unorphan_instance: sets the parent field, then pushes id on the parent's
\* children.  The parent field is written before the parent is looked up.
unorphan_instance(t, id, parent_id) ==
    IF ~Has(t, id) THEN [ok |-> FALSE, tree |-> t]
    ELSE LET t1 == [t EXCEPT !.instances[id].parent = Some(parent_id)] IN
         IF ~Has(t1, parent_id) THEN [ok |-> FALSE, tree |-> t1]
         ELSE [ok   |-> TRUE,
               tree |-> [t1 EXCEPT !.instances[parent_id].children =
                                       Append(@, id)]]

\* insert_internal_and_unorphan storing, under the instance's id, an instance
\* whose id field is its parent's id.
insert_internal_and_unorphan_reid(t, instance) ==
    IF instance.parent = None THEN [ok |-> FALSE, tree |-> t]
    ELSE LET t1 == [t EXCEPT !.instances =
                       MapInsert(@, instance.id,
                                 [instance EXCEPT !.id = Unwrap(instance.parent)])]
         IN  unorphan_instance(t1, instance.id, Unwrap(instance.parent))

\* insert_internal_and_unorphan: stores the instance, then links it.
insert_internal_and_unorphan(t, instance) ==
    IF instance.parent = None THEN [ok |-> FALSE, tree |-> t]
    ELSE LET t1 == [t EXCEPT !.instances = MapInsert(@, instance.id, instance)]
         IN  unorphan_instance(t1, instance.id, Unwrap(instance.parent))

\* insert_instance, given the Ref that RbxInstance::new drew.
insert_instance(t, id, parent_id) ==
    LET tree_instance == [RbxInstance_new(id) EXCEPT !.parent = Some(parent_id)]
        r == insert_internal_and_unorphan(t, tree_instance)
    IN  [ok |-> r.ok, tree |-> r.tree, ret |-> id]

----------------------------------------------------------------------------
(* Descendants *)

\* Descendants::next taking the first id of ids_to_visit instead of popping
\* the last one.
RECURSIVE Descendants_next_queue(_, _, _, _)
Descendants_next_queue(t, ids_to_visit, yielded, fuel) ==
    IF ids_to_visit = <<>> THEN [yielded |-> yielded, done |-> TRUE]
    ELSE IF fuel = 0 THEN [yielded |-> yielded, done |-> FALSE]
    ELSE LET id   == Head(ids_to_visit)
             rest == Tail(ids_to_visit)
         IN  IF Has(t, id)
             THEN Descendants_next_queue(t, rest \o t.instances[id].children,
                                         Append(yielded, id), fuel - 1)
             ELSE Descendants_next_queue(t, rest, yielded, fuel)

\* Descendants::next, called until it returns None or the fuel is spent:
\* pops the last id of ids_to_visit; an id with no instance is skipped; the
\* children of the instance are pushed in order and the instance is yielded.
RECURSIVE Descendants_next(_, _, _, _)
Descendants_next(t, ids_to_visit, yielded, fuel) ==
    IF ids_to_visit = <<>> THEN [yielded |-> yielded, done |-> TRUE]
    ELSE IF fuel = 0 THEN [yielded |-> yielded, done |-> FALSE]
    ELSE LET id   == Last(ids_to_visit)
             rest == Front(ids_to_visit)
         IN  IF Has(t, id)
             THEN Descendants_next(t, rest \o t.instances[id].children,
                                   Append(yielded, id), fuel - 1)
             ELSE Descendants_next(t, rest, yielded, fuel)

\* descendants(id) of an id in the tree, iterated to its end.
descendants(t, id) ==
    Descendants_next(t, t.instances[id].children, <<>>, IterFuel)

----------------------------------------------------------------------------
(* set_parent, move_instance, remove_instance *)

\* set_parent: walks descendants(id) and panics when it meets dest_parent_id;
\* then orphans id and links it under dest_parent_id.
\*   "panic"   : the call panicked, tree is what it left behind
\*   "diverge" : the walk over descendants(id) does not end
set_parent(t, id, dest_parent_id) ==
    IF ~Has(t, id) THEN [outcome |-> "panic", tree |-> t]
    ELSE LET walk == descendants(t, id) IN
         IF dest_parent_id \in Range(walk.yielded)
         THEN [outcome |-> "panic", tree |-> t]
         ELSE IF ~walk.done THEN [outcome |-> "diverge", tree |-> t]
         ELSE LET o == orphan_instance(t, id) IN
              IF ~o.ok THEN [outcome |-> "panic", tree |-> o.tree]
              ELSE LET u == unorphan_instance(o.tree, id, dest_parent_id) IN
                   [outcome |-> IF u.ok THEN "ok" ELSE "panic", tree |-> u.tree]

\* The loop of move_instance storing each instance in the destination
\* without taking it out of the source.
RECURSIVE move_children_copy(_, _, _)
move_children_copy(src, dst, to_visit) ==
    IF to_visit = <<>> THEN [outcome |-> "ok", src |-> src, dst |-> dst]
    ELSE LET id == Last(to_visit) IN
         IF ~Has(src, id) THEN [outcome |-> "panic", src |-> src, dst |-> dst]
         ELSE LET instance == src.instances[id] IN
              move_children_copy(
                  src,
                  [dst EXCEPT !.instances = MapInsert(@, instance.id, instance)],
                  Front(to_visit) \o instance.children)

\* The loop of move_instance: pops an id of to_visit, takes its instance out
\* of the source (unwrap panics when it is not there), pushes its children
\* and stores it in the destination.
RECURSIVE move_children(_, _, _)
move_children(src, dst, to_visit) ==
    IF to_visit = <<>> THEN [outcome |-> "ok", src |-> src, dst |-> dst]
    ELSE LET id == Last(to_visit) IN
         IF ~Has(src, id) THEN [outcome |-> "panic", src |-> src, dst |-> dst]
         ELSE LET instance == src.instances[id] IN
              move_children(
                  [src EXCEPT !.instances = MapRemove(@, id)],
                  [dst EXCEPT !.instances = MapInsert(@, instance.id, instance)],
                  Front(to_visit) \o instance.children)

\* move_instance
move_instance(src, source_id, dst, dest_parent_id) ==
    LET o == orphan_instance(src, source_id) IN
    IF ~o.ok THEN [outcome |-> "panic", src |-> o.tree, dst |-> dst]
    ELSE LET root_instance == [o.tree.instances[source_id]
                                 EXCEPT !.parent = Some(dest_parent_id)]
             src1     == [o.tree EXCEPT !.instances = MapRemove(@, source_id)]
             to_visit == root_instance.children
             i        == insert_internal_and_unorphan(dst, root_instance)
         IN  IF ~i.ok THEN [outcome |-> "panic", src |-> src1, dst |-> i.tree]
             ELSE move_children(src1, i.tree, to_visit)

\* The loop of remove_instance: an id with no instance is skipped.
RECURSIVE remove_subtree(_, _, _)
remove_subtree(t, ids_to_visit, new_tree_instances) ==
    IF ids_to_visit = <<>> THEN [tree |-> t, instances |-> new_tree_instances]
    ELSE LET id   == Last(ids_to_visit)
             rest == Front(ids_to_visit)
         IN  IF ~Has(t, id) THEN remove_subtree(t, rest, new_tree_instances)
             ELSE LET instance == t.instances[id] IN
                  remove_subtree(
                      [t EXCEPT !.instances = MapRemove(@, id)],
                      rest \o instance.children,
                      MapInsert(new_tree_instances, id, instance))

\* remove_instance: ret is the WeakDom it returns.
remove_instance(t, root_ref) ==
    IF t.root_ref = root_ref THEN [outcome |-> "panic", tree |-> t, ret |-> None]
    ELSE LET o == orphan_instance(t, root_ref) IN
         IF ~o.ok THEN [outcome |-> "panic", tree |-> o.tree, ret |-> None]
         ELSE LET r == remove_subtree(o.tree, <<root_ref>>, EmptyMap) IN
              [outcome |-> "ok", tree |-> r.tree,
               ret |-> Some([instances |-> r.instances, root_ref |-> root_ref])]

----------------------------------------------------------------------------
(* RbxInstance::sort_children_by_key and sort_children_unstable_by_key,     *)
(* called on what WeakDom::get_instance_mut hands out.  key is the key      *)
(* function f, given as the key of each child.                              *)

\* The position at which id goes into the sorted list s so that it comes
\* after every element whose key is not greater.
RECURSIVE insertion_point(_, _, _)
insertion_point(s, id, key) ==
    IF s = <<>> THEN 0
    ELSE IF key[id] < key[Last(s)] THEN insertion_point(Front(s), id, key)
    ELSE Len(s)

\* Vec::sort_by_key: the elements in the order of their keys, elements with
\* equal keys in the order they had.
RECURSIVE sort_by_key(_, _)
sort_by_key(s, key) ==
    IF s = <<>> THEN <<>>
    ELSE LET sorted == sort_by_key(Front(s), key)
             n == insertion_point(sorted, Last(s), key)
         IN  SubSeq(sorted, 1, n) \o <<Last(s)>> \o
             SubSeq(sorted, n + 1, Len(sorted))

\* Vec::sort_unstable_by_key: the orders it may leave, which are the
\* rearrangements of s where the keys do not decrease.
sort_unstable_by_key(s, key) ==
    {[i \in DOMAIN s |-> s[p[i]]] : p \in
        {q \in Permutations(DOMAIN s) :
            \A i \in DOMAIN s : \A j \in DOMAIN s :
                i < j => key[s[q[i]]] <= key[s[q[j]]]}}

\* The key functions a caller passes: a key for every child.
KeyFunctions(children) == [Range(children) -> 1..Len(children)]

\* tree.get_instance_mut(id).unwrap().sort_children_by_key(f)
sort_children_by_key(t, id, key) ==
    [t EXCEPT !.instances[id].children = sort_by_key(@, key)]

----------------------------------------------------------------------------
(* The program: any sequence of calls on the DOMs it holds, followed by   *)
(* one call that is inspected.  `last` is the inspected call: operation,  *)
(* arguments, outcome, what it returned and the DOMs as they were before  *)
(* it.  Nothing is called after the inspected call, and a call that does  *)
(* not return normally is always the inspected one.                       *)

Live == DOMAIN doms
Free == Slots \ Live
FirstFree == CHOOSE d \in Free : \A e \in Free : d <= e

\* Arguments a caller can pass: every Ref handed out so far, and Ref::none().
Args == NullRef..(nextRef - 1)

NoCall ==
    [op |-> "none", dom |-> 0, id |-> 0, dest |-> 0, parent |-> 0,
     outcome |-> "ok", ret |-> None, yielded |-> <<>>, pre |-> <<>>]

Running == last.op = "none"

Put(ds, d, t) == (d :> t) @@ ds

Call(op, dom, id, dest, parent, outcome, ret, yielded) ==
    [op |-> op, dom |-> dom, id |-> id, dest |-> dest, parent |-> parent,
     outcome |-> outcome, ret |-> ret, yielded |-> yielded,
     pre |-> doms]

\* A call that returned is either the inspected one, or one of the calls
\* before it; a call that did not return is the inspected one.
Record(call) ==
    \/ last' = call
    \/ call.outcome = "ok" /\ UNCHANGED last

\* The caller makes one more call.
CanCall == Running /\ calls < MaxCalls

\* decode has not been called.
NoResult == [outcome |-> "none"]

Init ==
    /\ doms = <<>>
    /\ nextRef = 1
    /\ last = NoCall
    /\ calls = 0
    /\ events = <<>>
    /\ open = <<>>
    /\ result = NoResult

\* let tree = WeakDom::new(properties)
New ==
    /\ CanCall
    /\ Free # {}
    /\ nextRef <= MaxRefs
    /\ doms' = Put(doms, FirstFree, WeakDom_new(NewRef))
    /\ nextRef' = nextRef + 1
    /\ calls' = calls + 1
    /\ UNCHANGED xmlvars
    /\ Record(Call("new", FirstFree, 0, 0, 0, "ok", Some(NewRef), <<>>))

\* doms[d].insert_instance(properties, parent_id)
InsertInstance(d, parent_id) ==
    /\ CanCall
    /\ nextRef <= MaxRefs
    /\ nextRef' = nextRef + 1
    /\ calls' = calls + 1
    /\ UNCHANGED xmlvars
    /\ LET r == insert_instance(doms[d], NewRef, parent_id) IN
       /\ doms' = Put(doms, d, r.tree)
       /\ Record(Call("insert_instance", d, 0, 0, parent_id,
                      IF r.ok THEN "ok" ELSE "panic",
                      IF r.ok THEN Some(r.ret) ELSE None, <<>>))

\* doms[d].set_parent(id, dest_parent_id)
SetParent(d, id, dest_parent_id) ==
    /\ CanCall
    /\ UNCHANGED <<nextRef, xmlvars>>
    /\ calls' = calls + 1
    /\ LET r == set_parent(doms[d], id, dest_parent_id) IN
       /\ doms' = Put(doms, d, r.tree)
       /\ Record(Call("set_parent", d, id, 0, dest_parent_id,
                      r.outcome, None, <<>>))

\* doms[s].move_instance(source_id, &mut doms[d], dest_parent_id)
MoveInstance(s, source_id, d, dest_parent_id) ==
    /\ CanCall
    /\ s # d
    /\ UNCHANGED <<nextRef, xmlvars>>
    /\ calls' = calls + 1
    /\ LET r == move_instance(doms[s], source_id, doms[d], dest_parent_id) IN
       /\ doms' = Put(Put(doms, s, r.src), d, r.dst)
       /\ Record(Call("move_instance", s, source_id, d, dest_parent_id,
                      r.outcome, None, <<>>))

\* let removed = doms[d].remove_instance(id); the caller keeps the returned
\* DOM when it has a free variable for it (last.dest), and drops it otherwise.
RemoveInstance(d, id) ==
    /\ CanCall
    /\ UNCHANGED <<nextRef, xmlvars>>
    /\ calls' = calls + 1
    /\ LET r    == remove_instance(doms[d], id)
           keep == r.outcome = "ok" /\ Free # {}
           slot == IF keep THEN FirstFree ELSE 0
       IN
       /\ doms' = IF keep THEN Put(Put(doms, d, r.tree), slot, Unwrap(r.ret))
                          ELSE Put(doms, d, r.tree)
       /\ Record(Call("remove_instance", d, id, slot, 0, r.outcome,
                      r.ret, <<>>))

\* doms[d].get_instance_mut(id) is Some(instance), and the caller calls
\* instance.sort_children_by_key(f).
SortChildrenByKey(d, id, key) ==
    /\ CanCall
    /\ Has(doms[d], id)
    /\ UNCHANGED <<nextRef, xmlvars>>
    /\ calls' = calls + 1
    /\ doms' = Put(doms, d, sort_children_by_key(doms[d], id, key))
    /\ Record(Call("sort_children_by_key", d, id, 0, 0, "ok", None, <<>>))

\* doms[d].get_instance_mut(id) is Some(instance), and the caller calls
\* instance.sort_children_unstable_by_key(f), which leaves the children in
\* one of the orders sorted by key.
SortChildrenUnstableByKey(d, id, key) ==
    /\ CanCall
    /\ Has(doms[d], id)
    /\ UNCHANGED <<nextRef, xmlvars>>
    /\ calls' = calls + 1
    /\ \E children \in sort_unstable_by_key(doms[d].instances[id].children,
                                             key) :
          doms' = Put(doms, d, [doms[d] EXCEPT
                                  !.instances[id].children = children])
    /\ Record(Call("sort_children_unstable_by_key", d, id, 0, 0, "ok", None,
                   <<>>))

\* The instances of doms[d] a caller can sort the children of.
Sortable(d) == DOMAIN doms[d].instances

\* for instance in doms[d].descendants(id) { ... }: descendants panics when
\* id is not in the tree; yielded is what the loop saw.
Descendants(d, id) ==
    /\ CanCall
    /\ UNCHANGED <<doms, nextRef, xmlvars>>
    /\ calls' = calls + 1
    /\ IF ~Has(doms[d], id)
       THEN last' = Call("descendants", d, id, 0, 0, "panic", None, <<>>)
       ELSE LET walk == descendants(doms[d], id) IN
            last' = Call("descendants", d, id, 0, 0,
                         IF walk.done THEN "ok" ELSE "diverge", None,
                         walk.yielded)

Next ==
    \/ New
    \/ CanCall /\ \E d \in Live, p \in Args : InsertInstance(d, p)
    \/ CanCall /\ \E d \in Live, id \in Args, p \in Args : SetParent(d, id, p)
    \/ CanCall /\ \E s \in Live, d \in Live, id \in Args, p \in Args :
                     MoveInstance(s, id, d, p)
    \/ CanCall /\ \E d \in Live, id \in Args : RemoveInstance(d, id)
    \/ CanCall /\ \E d \in Live, id \in Args : Descendants(d, id)
    \/ CanCall /\ \E d \in Live : \E id \in Sortable(d) :
                     \E key \in KeyFunctions(doms[d].instances[id].children) :
                        SortChildrenByKey(d, id, key)
    \/ CanCall /\ \E d \in Live : \E id \in Sortable(d) :
                     \E key \in KeyFunctions(doms[d].instances[id].children) :
                        SortChildrenUnstableByKey(d, id, key)

Spec == Init /\ [][Next]_vars

----------------------------------------------------------------------------
(* Notions the properties are stated in *)

\* Every id reachable from the ids S by following children lists, S included.
RECURSIVE Closure(_, _)
Closure(t, S) ==
    LET N == S \cup UNION {Range(t.instances[x].children) :
                             x \in S \cap DOMAIN t.instances}
    IN  IF N = S THEN S ELSE Closure(t, N)

\* The ids below id: its children, their children, and so on.
Below(t, id) == Closure(t, Range(t.instances[id].children))

\* How often id is listed in the children lists of t.
Listed(t, p, id) == Count(t.instances[p].children, id)

\* Invariants 2 and 3 of an instance: the root has no parent; every other
\* instance has a parent in the same DOM that lists it exactly once.
WellLinked(t) ==
    \A i \in DOMAIN t.instances :
        LET parent == t.instances[i].parent IN
        \/ parent = None /\ i = t.root_ref
        \/ /\ parent # None
           /\ Has(t, Unwrap(parent))
           /\ Listed(t, Unwrap(parent), i) = 1

\* Invariant 5: following children from the root reaches every stored
\* instance, along exactly one path, and never comes back to an instance.
IsTree(t) ==
    /\ Has(t, t.root_ref)
    /\ \A i \in DOMAIN t.instances : i \notin Below(t, i)
    /\ {t.root_ref} \cup Below(t, t.root_ref) = DOMAIN t.instances
    /\ \A i \in DOMAIN t.instances :
          /\ Cardinality({p \in DOMAIN t.instances : Listed(t, p, i) > 0})
                = (IF i = t.root_ref THEN 0 ELSE 1)
          /\ \A p \in DOMAIN t.instances : Listed(t, p, i) <= 1

\* The DOMs a program can hold after the last call: the ones in its
\* variables and the one remove_instance returned.
Resulting ==
    {doms[d] : d \in Live} \cup
    (IF last.op = "remove_instance" /\ last.ret # None
        THEN {Unwrap(last.ret)} ELSE {})

\* Every call so far returned normally.
AllReturned == last.outcome = "ok"

Inspected(op) == last.op = op

----------------------------------------------------------------------------
(* C1 - C3: the invariants of the tree and the cycle check of set_parent *)

\* C1: after calls that all returned normally, in every resulting DOM each
\* instance either has no parent and is the root, or has a parent in the same
\* DOM whose children list it exactly once.
C1_WellLinked == AllReturned => \A t \in Resulting : WellLinked(t)

\* C2: after calls that all returned normally, following children from
\* root_ref never comes back to an instance and reaches every stored instance
\* exactly once.
C2_IsTree == AllReturned => \A t \in Resulting : IsTree(t)

\* C3: set_parent(id, dest_parent_id) with dest_parent_id below id, or equal
\* to id, panics and leaves the DOM as it was.
C3_CycleRejected ==
    ( /\ Inspected("set_parent")
      /\ Has(last.pre[last.dom], last.id)
      /\ last.parent \in {last.id} \cup Below(last.pre[last.dom], last.id) )
    => (last.outcome = "panic" /\ doms = last.pre)

----------------------------------------------------------------------------
(* C4, C5: move_instance *)

Ids(t) == DOMAIN t.instances

\* The inspected call is a move_instance that returned.
Moved == Inspected("move_instance") /\ last.outcome = "ok"

\* The source and the destination before and after the inspected move, and
\* the subtree it was asked to move.
Src0 == last.pre[last.dom]
Dst0 == last.pre[last.dest]
Src1 == doms[last.dom]
Dst1 == doms[last.dest]
Subtree == {last.id} \cup Below(Src0, last.id)

\* C4: after move_instance returns, the source holds no instance of the moved
\* subtree, the destination holds every one of them under its id, every other
\* instance is in the DOM it was in, and no instance is lost or in both DOMs.
C4_MoveFrame ==
    Moved =>
        /\ Ids(Src1) \cap Subtree = {}
        /\ Subtree \subseteq Ids(Dst1)
        /\ \A x \in Subtree : Dst1.instances[x].id = x
        /\ Ids(Src1) = Ids(Src0) \ Subtree
        /\ Ids(Dst1) = Ids(Dst0) \cup Subtree
        /\ Ids(Src1) \cap Ids(Dst1) = {}
        /\ Ids(Src1) \cup Ids(Dst1) = Ids(Src0) \cup Ids(Dst0)

\* A subtree of two instances was moved.
C4_Witness == Moved /\ Cardinality(Subtree) >= 2

\* Where an instance of the source or the destination is after the move.
After(x) == IF Has(Dst1, x) THEN Dst1.instances[x] ELSE Src1.instances[x]

\* C5: after move_instance returns, the moved root has parent
\* Some(dest_parent_id) and is the last child of dest_parent_id, it is no
\* longer among the children of its old parent, and every other moved
\* instance has the children list and the parent it had.
C5_MoveLinks ==
    Moved =>
        /\ Dst1.instances[last.id].parent = Some(last.parent)
        /\ Has(Dst1, last.parent)
        /\ Dst1.instances[last.parent].children # <<>>
        /\ Last(Dst1.instances[last.parent].children) = last.id
        /\ last.id \notin Range(After(Unwrap(Src0.instances[last.id].parent)).children)
        /\ \A x \in Subtree \ {last.id} :
              /\ Dst1.instances[x].children = Src0.instances[x].children
              /\ Dst1.instances[x].parent = Src0.instances[x].parent

----------------------------------------------------------------------------
(* C6, C7: descendants *)

\* The inspected call is descendants(id) for an id of the tree.
Walked == Inspected("descendants") /\ Has(last.pre[last.dom], last.id)
WalkedTree == last.pre[last.dom]

NoDuplicates(s) == \A i, j \in 1..Len(s) : s[i] = s[j] => i = j

\* C6: descendants(id) yields every instance below id exactly once, nothing
\* else, and never id itself.
C6_DescendantsExact ==
    Walked =>
        /\ last.outcome = "ok"
        /\ Range(last.yielded) = Below(WalkedTree, last.id)
        /\ NoDuplicates(last.yielded)
        /\ last.id \notin Range(last.yielded)

\* Pre-order over the children order: the first id of ids, everything below
\* it, then the next id.  Instances deeper than depth are left out.
RECURSIVE PreOrder(_, _, _)
PreOrder(t, ids, depth) ==
    IF ids = <<>> \/ depth = 0 THEN <<>>
    ELSE (IF Has(t, Head(ids))
             THEN <<Head(ids)>> \o
                  PreOrder(t, t.instances[Head(ids)].children, depth - 1)
             ELSE <<>>)
         \o PreOrder(t, Tail(ids), depth)

\* Pre-order over the reversed children order: the last id of ids, everything
\* below it (last child first), then the id before it.
RECURSIVE ReversePreOrder(_, _, _)
ReversePreOrder(t, ids, depth) ==
    IF ids = <<>> \/ depth = 0 THEN <<>>
    ELSE (IF Has(t, Last(ids))
             THEN <<Last(ids)>> \o
                  ReversePreOrder(t, t.instances[Last(ids)].children, depth - 1)
             ELSE <<>>)
         \o ReversePreOrder(t, Front(ids), depth)

\* The k-th instance of a pre-order is at depth k at most, so the first
\* IterFuel instances of the order are those of the order cut at that depth.
FirstOf(order) == Take(order, IterFuel)

\* C7 as claimed: descendants(id) yields the first child of id, then all of
\* that child's descendants, then the next child, and so on.
C7_PreOrder ==
    Walked =>
        last.yielded =
            FirstOf(PreOrder(WalkedTree,
                             WalkedTree.instances[last.id].children, IterFuel))

\* C7 as amended: descendants(id) yields the last child of id, then all of
\* that child's descendants, last child first, then the child before it, and
\* so on: a pre-order over the reversed children order.
C7_ReversePreOrder ==
    Walked =>
        last.yielded =
            FirstOf(ReversePreOrder(WalkedTree,
                                    WalkedTree.instances[last.id].children,
                                    IterFuel))

\* descendants of an instance with two children, one of them with a child.
C7_Witness ==
    /\ Walked
    /\ last.outcome = "ok"
    /\ Len(WalkedTree.instances[last.id].children) = 2
    /\ Len(last.yielded) = 3

----------------------------------------------------------------------------
(* C8: the root *)

\* The inspected call asks to remove, reparent or move the root of its DOM.
OnRoot ==
    /\ last.op \in {"remove_instance", "set_parent", "move_instance"}
    /\ last.id = last.pre[last.dom].root_ref

\* C8: remove_instance(root_ref), set_parent(root_ref, p) and
\* move_instance(root_ref, dest, p) panic and leave every DOM as it was.
C8_RootStays == OnRoot => (last.outcome = "panic" /\ doms = last.pre)

----------------------------------------------------------------------------
(* C9, C10: insert_instance *)

Inserted == Inspected("insert_instance")
InsertTree0 == last.pre[last.dom]
InsertTree1 == doms[last.dom]

\* C9: insert_instance under a parent of the tree returns an id that was not
\* in the DOM, stores one new instance under it, with that parent and no
\* children, as the last child of the parent, and changes nothing else.
C9_InsertFrame ==
    (Inserted /\ Has(InsertTree0, last.parent)) =>
        /\ last.outcome = "ok"
        /\ last.ret # None
        /\ LET id == Unwrap(last.ret) IN
           /\ id \notin Ids(InsertTree0)
           /\ Ids(InsertTree1) = Ids(InsertTree0) \cup {id}
           /\ InsertTree1.instances[id] =
                 [id |-> id, parent |-> Some(last.parent), children |-> <<>>]
           /\ InsertTree1.instances[last.parent].children =
                 Append(InsertTree0.instances[last.parent].children, id)
           /\ InsertTree1.instances[last.parent].parent =
                 InsertTree0.instances[last.parent].parent
           /\ \A x \in Ids(InsertTree0) \ {last.parent} :
                 InsertTree1.instances[x] = InsertTree0.instances[x]
           /\ InsertTree1.root_ref = InsertTree0.root_ref
           /\ \A d \in DOMAIN last.pre : d # last.dom => doms[d] = last.pre[d]

\* An instance was inserted under a parent that had a child.
C9_Witness ==
    /\ Inserted
    /\ last.outcome = "ok"
    /\ Has(InsertTree0, last.parent)
    /\ InsertTree0.instances[last.parent].children # <<>>

\* C10: insert_instance under an id that is not in the tree panics and
\* leaves the DOM with the instances it had.
C10_InsertAbsentParent ==
    (Inserted /\ ~Has(InsertTree0, last.parent)) =>
        /\ last.outcome = "panic"
        /\ Ids(InsertTree1) = Ids(InsertTree0)

----------------------------------------------------------------------------
(* C11, C12: calls with an id that is not in the tree *)

\* The tree set_parent was called on, before and after the call.
SetTree0 == last.pre[last.dom]
SetTree1 == doms[last.dom]

\* C11: set_parent(id, dest_parent_id) with id or dest_parent_id not in the
\* tree panics and leaves the DOM as it was.
C11_SetParentAbsent ==
    ( /\ Inspected("set_parent")
      /\ (~Has(SetTree0, last.id) \/ ~Has(SetTree0, last.parent)) )
    => (last.outcome = "panic" /\ doms = last.pre)

\* C12: move_instance(source_id, dest, dest_parent_id) with source_id not in
\* the source, or dest_parent_id not in the destination as it was before the
\* call, panics and leaves both DOMs as they were.
C12_MoveAbsent ==
    ( /\ Inspected("move_instance")
      /\ (~Has(Src0, last.id) \/ ~Has(Dst0, last.parent)) )
    => (last.outcome = "panic" /\ doms = last.pre)

----------------------------------------------------------------------------
(* C13, C14: remove_instance *)

\* The inspected call is remove_instance(r) for a non-root r of the DOM.
Removing ==
    /\ Inspected("remove_instance")
    /\ Has(last.pre[last.dom], last.id)
    /\ last.id # last.pre[last.dom].root_ref

RemoveTree0 == last.pre[last.dom]
RemoveTree1 == doms[last.dom]
RemovedIds == {last.id} \cup Below(RemoveTree0, last.id)

\* C13: remove_instance(r) for a non-root r takes r and everything below it
\* out of the source, takes r out of its parent's children, leaves every
\* other instance as it was, and returns a DOM with root_ref r that holds
\* exactly r and what was below it, each with the id and the children it had.
C13_RemoveFrame ==
    Removing =>
        /\ last.outcome = "ok"
        /\ last.ret # None
        /\ Ids(RemoveTree1) \cap RemovedIds = {}
        /\ LET parent == Unwrap(RemoveTree0.instances[last.id].parent)
               removed == Unwrap(last.ret)
           IN
           /\ Has(RemoveTree0, parent)
           /\ parent \notin RemovedIds
           /\ last.id \notin Range(RemoveTree1.instances[parent].children)
           /\ RemoveTree1.instances[parent].parent =
                 RemoveTree0.instances[parent].parent
           /\ RemoveTree1.instances[parent].children =
                 Retain(RemoveTree0.instances[parent].children, last.id)
           /\ Ids(RemoveTree1) = Ids(RemoveTree0) \ RemovedIds
           /\ \A x \in Ids(RemoveTree1) \ {parent} :
                 RemoveTree1.instances[x] = RemoveTree0.instances[x]
           /\ RemoveTree1.root_ref = RemoveTree0.root_ref
           /\ removed.root_ref = last.id
           /\ Ids(removed) = RemovedIds
           /\ \A x \in RemovedIds :
                 /\ removed.instances[x].id = x
                 /\ removed.instances[x].children =
                       RemoveTree0.instances[x].children

\* C14: the DOM WeakDom::new builds, and the DOM remove_instance returns,
\* store under root_ref an instance whose parent is None.
C14_RootParentNone ==
    /\ Inspected("new") =>
          doms[last.dom].instances[doms[last.dom].root_ref].parent = None
    /\ (Inspected("remove_instance") /\ last.ret # None) =>
          LET removed == Unwrap(last.ret) IN
          /\ Has(removed, removed.root_ref)
          /\ removed.instances[removed.root_ref].parent = None

----------------------------------------------------------------------------
(* C15, C16: children lists and ids across the operations *)

Mutators == {"insert_instance", "set_parent", "move_instance", "remove_instance"}

\* The DOMs before the inspected call.
Before == {last.pre[d] : d \in DOMAIN last.pre}

\* The children lists the instance x has in the DOMs of ds.
ChildrenOf(ds, x) == {t.instances[x].children : t \in {u \in ds : Has(u, x)}}

\* a comes before b in s.
Precedes(s, a, b) == \E i, j \in 1..Len(s) : i < j /\ s[i] = a /\ s[j] = b

\* Two ids that are in both lists are in the same order in both.
SameOrder(old, new) ==
    \A a, b \in Range(old) \cap Range(new) :
        a # b => (Precedes(old, a, b) <=> Precedes(new, a, b))

\* C15: after calls that all returned normally no children list holds an id
\* twice, and an insert_instance, set_parent, move_instance or
\* remove_instance that returns leaves any two ids that are children of the
\* same instance before and after it in the order they were in.
C15_ChildrenOrder ==
    AllReturned =>
        /\ \A t \in Resulting : \A x \in Ids(t) :
              NoDuplicates(t.instances[x].children)
        /\ last.op \in Mutators =>
              \A x \in UNION {Ids(t) : t \in Before} :
                 \A old \in ChildrenOf(Before, x) :
                    \A new \in ChildrenOf(Resulting, x) : SameOrder(old, new)

\* The id the inspected insert_instance drew from Ref::new().
Created == IF Inspected("insert_instance") THEN {nextRef - 1} ELSE {}

\* C16: in every DOM each instance is stored under its own id, and an
\* insert_instance, set_parent, move_instance or remove_instance stores no
\* instance under an id other than those stored before it and the one it
\* created; when it returns, every id stored before it is still stored.
C16_IdsFixed ==
    /\ \A t \in Resulting : \A k \in Ids(t) : t.instances[k].id = k
    /\ last.op \in Mutators =>
          LET then == UNION {Ids(t) : t \in Before}
              now  == UNION {Ids(t) : t \in Resulting}
          IN  /\ now \subseteq then \cup Created
              /\ last.outcome = "ok" => now = then \cup Created

\* A subtree of two instances was moved from one tree to another, and each
\* of the two is stored in the destination under its id.
C16_Witness ==
    /\ Moved
    /\ IsTree(Src0)
    /\ IsTree(Dst0)
    /\ Cardinality(Subtree) >= 2
    /\ \A k \in Subtree : Has(Dst1, k) /\ Dst1.instances[k].id = k

----------------------------------------------------------------------------
(* C17: set_parent under an instance that is not below id *)

\* The inspected call is set_parent(id, p) with id a non-root instance and p
\* an instance that is neither id nor below id.
Reparenting ==
    /\ Inspected("set_parent")
    /\ Has(SetTree0, last.id)
    /\ last.id # SetTree0.root_ref
    /\ Has(SetTree0, last.parent)
    /\ last.parent \notin {last.id} \cup Below(SetTree0, last.id)

\* C17: such a set_parent returns with id's parent Some(p), id the last child
\* of p and not among the children of its former parent, and the children
\* lists and parents below id as they were.
C17_SetParentLinks ==
    Reparenting =>
        /\ last.outcome = "ok"
        /\ SetTree1.instances[last.id].parent = Some(last.parent)
        /\ SetTree1.instances[last.parent].children # <<>>
        /\ Last(SetTree1.instances[last.parent].children) = last.id
        /\ LET former == SetTree0.instances[last.id].parent IN
           /\ former # None
           /\ Has(SetTree1, Unwrap(former))
           /\ last.id \notin Range(SetTree1.instances[Unwrap(former)].children)
        /\ SetTree1.instances[last.id].children =
              SetTree0.instances[last.id].children
        /\ \A x \in Below(SetTree0, last.id) :
              /\ Has(SetTree1, x)
              /\ SetTree1.instances[x] = SetTree0.instances[x]

----------------------------------------------------------------------------
(* rbx_xml: the event stream.                                              *)
(* An event is what reader.next() yields: Ok(XmlEvent) or Err(e).  The     *)
(* parser yields StartDocument, then the elements of the document with     *)
(* their text, then EndDocument; or it yields Err at the point where the   *)
(* document is malformed or cannot be read.  After EndDocument and after   *)
(* Err it yields nothing more.  Attributes are Option<String>.             *)

Event(kind, name) ==
    [kind |-> kind, name |-> name, version |-> None, class |-> None,
     referent |-> None, pname |-> None, text |-> ""]

StartDocument == Event("StartDocument", "")
EndDocument == Event("EndDocument", "")
StartElement(name) == Event("StartElement", name)
EndElement(name) == Event("EndElement", name)
Characters(text) == [Event("Characters", "") EXCEPT !.text = text]
StreamError == Event("Error", "")

\* let x = value; rest: the value is computed once, then rest is computed
\* with it.
Let(value, rest(_)) == CHOOSE y \in {rest(x) : x \in {value}} : TRUE

\* reader.next().ok_or(DecodeError::MalformedDocument)??
ReadEvent(evs, pos) ==
    IF pos > Len(evs)
    THEN [ok |-> FALSE, err |-> "MalformedDocument", pos |-> pos,
          event |-> StreamError]
    ELSE IF evs[pos].kind = "Error"
    THEN [ok |-> FALSE, err |-> "XmlError", pos |-> pos + 1,
          event |-> StreamError]
    ELSE [ok |-> TRUE, err |-> "", pos |-> pos + 1, event |-> evs[pos]]

\* What a function of the decoder hands back: outcome is "Ok", "Err" (with
\* the error in err), "panic", or "diverge" when it never returns.
Return(outcome, err, pos, value) ==
    [outcome |-> outcome, err |-> err, pos |-> pos, value |-> value]

\* eat_unknown_tag that stops at the first end tag it meets.
RECURSIVE eat_unknown_tag_flat(_, _, _)
eat_unknown_tag_flat(evs, pos, depth) ==
    Let(ReadEvent(evs, pos), LAMBDA r :
        IF ~r.ok THEN Return("Err", r.err, r.pos, None)
        ELSE IF r.event.kind = "EndElement" THEN Return("Ok", "", r.pos, None)
        ELSE eat_unknown_tag_flat(evs, r.pos, depth))

\* eat_unknown_tag: consumes events, counting the depth up at a start tag and
\* down at an end tag, until the depth is back at 0.
RECURSIVE eat_unknown_tag(_, _, _)
eat_unknown_tag(evs, pos, depth) ==
    Let(ReadEvent(evs, pos), LAMBDA r :
        IF ~r.ok THEN Return("Err", r.err, r.pos, None)
        ELSE IF r.event.kind = "StartElement"
        THEN eat_unknown_tag(evs, r.pos, depth + 1)
        ELSE IF r.event.kind = "EndElement"
        THEN IF depth - 1 = 0 THEN Return("Ok", "", r.pos, None)
             ELSE eat_unknown_tag(evs, r.pos, depth - 1)
        ELSE eat_unknown_tag(evs, r.pos, depth))

\* RbxValue
RbxValue(type, value) == [type |-> type, value |-> value]

\* deserialize_bool that takes every text other than "true" for false.
deserialize_bool_lenient(evs, pos) ==
    Let(ReadEvent(evs, pos), LAMBDA r :
        IF ~r.ok THEN Return("Err", r.err, r.pos, None)
        ELSE IF r.event.kind # "Characters"
        THEN Return("Err", "MalformedDocument", r.pos, None)
        ELSE Return("Ok", "", r.pos, RbxValue("Bool", r.event.text = "true")))

\* deserialize_bool
deserialize_bool(evs, pos) ==
    Let(ReadEvent(evs, pos), LAMBDA r :
        IF ~r.ok THEN Return("Err", r.err, r.pos, None)
        ELSE IF r.event.kind # "Characters"
        THEN Return("Err", "MalformedDocument", r.pos, None)
        ELSE IF r.event.text = "true"
        THEN Return("Ok", "", r.pos, RbxValue("Bool", TRUE))
        ELSE IF r.event.text = "false"
        THEN Return("Ok", "", r.pos, RbxValue("Bool", FALSE))
        ELSE Return("Err", "invalid boolean value, expected true or false",
                    r.pos, None))

\* deserialize_string
deserialize_string(evs, pos) ==
    Let(ReadEvent(evs, pos), LAMBDA r :
        IF ~r.ok THEN Return("Err", r.err, r.pos, None)
        ELSE IF r.event.kind # "Characters"
        THEN Return("Err", "MalformedDocument", r.pos, None)
        ELSE Return("Ok", "", r.pos, RbxValue("String", r.event.text)))

\* char::to_digit(10) of the characters that are decimal digits.
DigitOf ==
    ("0" :> 0) @@ ("1" :> 1) @@ ("2" :> 2) @@ ("3" :> 3) @@ ("4" :> 4) @@
    ("5" :> 5) @@ ("6" :> 6) @@ ("7" :> 7) @@ ("8" :> 8) @@ ("9" :> 9)

\* text without its first n characters.
Skip(text, n) == SubSeq(text, n + 1, Len(text))

\* text starts with one of the characters of set.
StartsWith(text, set) == text # "" /\ Head(text) \in set

\* A u32, kept as its two 16-bit halves: the number hi * 2^16 + lo.
U32(hi, lo) == [hi |-> hi, lo |-> lo]

\* result.checked_mul(10)?.checked_add(digit)? on a u32
checked_mul10_add(x, digit) ==
    IF (x.hi * 10 + (x.lo * 10 + digit) \div 65536) >= 65536 THEN None
    ELSE Some(U32(x.hi * 10 + (x.lo * 10 + digit) \div 65536,
                  (x.lo * 10 + digit) % 65536))

\* The loop of u32::from_str over the characters of digits: a character
\* that is no digit and a number above u32::MAX are errors.
RECURSIVE from_digits(_, _)
from_digits(digits, x) ==
    IF digits = "" THEN Some(x)
    ELSE IF Head(digits) \notin DOMAIN DigitOf THEN None
    ELSE IF checked_mul10_add(x, DigitOf[Head(digits)]) = None THEN None
    ELSE from_digits(Tail(digits),
                     Unwrap(checked_mul10_add(x, DigitOf[Head(digits)])))

\* content.parse::<u32>(): the empty text is an error, one leading "+" is
\* passed over, and at least one digit has to follow.
ParseU32(text) ==
    IF text = "" THEN None
    ELSE IF Skip(text, IF Head(text) = "+" THEN 1 ELSE 0) = "" THEN None
    ELSE from_digits(Skip(text, IF Head(text) = "+" THEN 1 ELSE 0), U32(0, 0))

\* The positions of text whose character is not one of set, and the least
\* and the greatest of a set of positions.
Outside(text, set) == {i \in 1..Len(text) : SubSeq(text, i, i) \notin set}
Least(positions) == CHOOSE i \in positions : \A j \in positions : i <= j
Greatest(positions) == CHOOSE i \in positions : \A j \in positions : i >= j

\* The number of decimal digits text starts with.
DigitRun(text) ==
    Let(Outside(text, DOMAIN DigitOf), LAMBDA others :
        IF others = {} THEN Len(text) ELSE Least(others) - 1)

\* digits without the zeros it starts with, and without the ones it ends
\* with.
StripLeadingZeros(digits) ==
    Let(Outside(digits, {"0"}), LAMBDA others :
        IF others = {} THEN ""
        ELSE SubSeq(digits, Least(others), Len(digits)))
StripTrailingZeros(digits) ==
    Let(Outside(digits, {"0"}), LAMBDA others :
        IF others = {} THEN ""
        ELSE SubSeq(digits, 1, Greatest(others)))

\* The exponent dec2flt reads from a run of exponent digits: a digit is added
\* while the number is below 0x10000, and passed over after that.
RECURSIVE ExponentOf(_, _)
ExponentOf(digits, exponent) ==
    IF digits = "" THEN exponent
    ELSE ExponentOf(Tail(digits),
                    IF exponent < 65536
                    THEN 10 * exponent + DigitOf[Head(digits)]
                    ELSE exponent)

\* An f64 or f32 that str::parse returned: the float nearest to the decimal
\* number (-1)^neg * digits * 10^exp, where digits neither starts nor ends
\* with a zero (zero is the empty digits with exp 0), or an infinity, or NaN.
Float(neg, digits, exp) ==
    [class |-> "finite", neg |-> neg, digits |-> digits,
     exp |-> IF digits = "" THEN 0 ELSE exp]
Infinity(neg) == [class |-> "inf", neg |-> neg, digits |-> "", exp |-> 0]
NaN(neg) == [class |-> "nan", neg |-> neg, digits |-> "", exp |-> 0]

\* The range of a float type, as decimal numbers digits * 10^exp. A number
\* of at least overflow, which lies midway between the largest finite float
\* and the next power of two, is nearest to an infinity; a number of at most
\* underflow, which is half of the least positive float, is nearest to zero.
f32 ==
    [overflow |->
        [digits |->
            "340282356779733661637539395458142568448",
         exp |-> 0],
     underflow |->
        [digits |->
            "70064923216240853546186479164495806564013097093825788587" \o
            "8534141944895541342930300743319094181060791015625",
         exp |-> -150]]
f64 ==
    [overflow |->
        [digits |->
            "17976931348623158079372897140530341507993413271003782693" \o
            "61737789804449682927647509466490179775872070963302864166" \o
            "92887910946555547851940402630657488671505820681908902000" \o
            "70838367627385484581771153176447573027006985557136695962" \o
            "28429148198608349364752927190741684443655107043427115596" \o
            "99508093042880177904174497792",
         exp |-> 0],
     underflow |->
        [digits |->
            "24703282292062327208828439643411068618252990130716238221" \o
            "27928412503377536351043759326499181808179961898982823477" \o
            "22858865463328355177969898199387398005390939063150356595" \o
            "15570226392290858392449105184435931802849936536152500319" \o
            "37045767824921936562366986365848075700158576926990370631" \o
            "19282795585513329278343384093519780155312465972635795746" \o
            "22766465272827220056374006485499977096599470454020828166" \o
            "22623785739345073633900796776193057750674017632467360096" \o
            "89513405355374585166611342237666786041621596804619144672" \o
            "91840300530057530849048765391711386591646239524912623653" \o
            "88187963623937328042389101867234849766823508986338858792" \o
            "56283027559956575244555072551893136908362547791869486679" \o
            "94968324049705821028513185451396213837722826145437693412" \o
            "532098591327667236328125",
         exp |-> -1075]]

\* The order of two runs of digits that stand behind the same decimal point
\* and do not end with a zero: -1, 0 or 1. The first place where they differ
\* decides, and a run that the other one goes on from is the smaller.
CompareDigits(a, b) ==
    Let({i \in 1..(IF Len(a) < Len(b) THEN Len(a) ELSE Len(b)) :
            SubSeq(a, i, i) # SubSeq(b, i, i)}, LAMBDA differ :
        IF differ # {}
        THEN IF DigitOf[SubSeq(a, Least(differ), Least(differ))]
                    < DigitOf[SubSeq(b, Least(differ), Least(differ))]
             THEN 0 - 1 ELSE 1
        ELSE IF Len(a) < Len(b) THEN 0 - 1
        ELSE IF Len(a) > Len(b) THEN 1
        ELSE 0)

\* The order of two positive decimal numbers digits * 10^exp: the one whose
\* first digit stands higher is the larger, then the digits decide.
Compare(x, y) ==
    IF Len(x.digits) + x.exp < Len(y.digits) + y.exp THEN 0 - 1
    ELSE IF Len(x.digits) + x.exp > Len(y.digits) + y.exp THEN 1
    ELSE CompareDigits(x.digits, y.digits)

\* The float of a type that a decimal number is rounded to: an infinity past
\* the largest finite float, zero below the least positive one.
Nearest(type, x) ==
    IF x.digits = "" THEN x
    ELSE IF Compare(x, type.overflow) >= 0 THEN Infinity(x.neg)
    ELSE IF Compare(x, type.underflow) <= 0 THEN Float(x.neg, "", 0)
    ELSE x

\* The digits of a number before and after its point, with the exponent
\* written after them, as one decimal number.
Decimal(neg, integer, fraction, exponent) ==
    Let(StripLeadingZeros(integer \o fraction), LAMBDA digits :
        Float(neg, StripTrailingZeros(digits),
              exponent - Len(fraction)
                  + (Len(digits) - Len(StripTrailingZeros(digits)))))

\* The exponent part of a number, rest being what follows its digits: None
\* when rest is not an exponent with at least one digit and nothing after.
ParseExponent(rest) ==
    IF rest = "" THEN Some(0)
    ELSE IF ~StartsWith(rest, {"e", "E"}) THEN None
    ELSE Let(Skip(rest, IF StartsWith(Tail(rest), {"+", "-"}) THEN 2 ELSE 1),
             LAMBDA digits :
             IF digits = "" \/ DigitRun(digits) # Len(digits) THEN None
             ELSE IF StartsWith(Tail(rest), {"-"})
             THEN Some(0 - ExponentOf(digits, 0))
             ELSE Some(ExponentOf(digits, 0)))

\* dec2flt on text without its sign: digits, a point and digits with at
\* least one digit among them, then an exponent.
ParseNumber(neg, text) ==
    Let(DigitRun(text), LAMBDA n :
    Let(Skip(text, n), LAMBDA after :
    Let(IF StartsWith(after, {"."}) THEN DigitRun(Tail(after)) ELSE 0,
        LAMBDA m :
    Let(IF StartsWith(after, {"."}) THEN Skip(after, m + 1) ELSE after,
        LAMBDA rest :
        IF n + m = 0 \/ ParseExponent(rest) = None THEN None
        ELSE Some(Decimal(neg, SubSeq(text, 1, n),
                          SubSeq(after, 2, m + 1),
                          Unwrap(ParseExponent(rest))))))))

\* The lower-case form of the letters of "infinity" and "nan".
LowerOf ==
    ("I" :> "i") @@ ("N" :> "n") @@ ("F" :> "f") @@ ("T" :> "t") @@
    ("Y" :> "y") @@ ("A" :> "a")
RECURSIVE Lower(_)
Lower(text) ==
    IF text = "" THEN ""
    ELSE (IF Head(text) \in DOMAIN LowerOf THEN LowerOf[Head(text)]
          ELSE Head(text)) \o Lower(Tail(text))

\* content.parse::<f64>() and content.parse::<f32>(), type being f64 or f32:
\* a sign, then a number, rounded to the type, or, in any case of letters,
\* the three letters of inf or nan or the eight of infinity.
ParseFloat(type, text) ==
    IF text = "" THEN None
    ELSE Let(Head(text) = "-", LAMBDA neg :
         Let(Skip(text, IF Head(text) \in {"+", "-"} THEN 1 ELSE 0),
             LAMBDA body :
             IF body = "" THEN None
             ELSE IF ParseNumber(neg, body) # None
             THEN Some(Nearest(type, Unwrap(ParseNumber(neg, body))))
             ELSE IF Len(body) \notin {3, 8} THEN None
             ELSE IF Lower(body) \in {"inf", "infinity"}
             THEN Some(Infinity(neg))
             ELSE IF Lower(body) = "nan" THEN Some(NaN(neg))
             ELSE None))

\* EventIterator::read_tag_contents
read_tag_contents(evs, pos, expected_name) ==
    Let(ReadEvent(evs, pos), LAMBDA s :
        IF ~s.ok THEN Return("Err", s.err, s.pos, None)
        ELSE IF s.event.kind # "StartElement"
        THEN Return("Err", "MalformedDocument", s.pos, None)
        ELSE IF s.event.name # expected_name
        THEN Return("Err", "got wrong tag name", s.pos, None)
        ELSE
        Let(ReadEvent(evs, s.pos), LAMBDA c :
            IF ~c.ok THEN Return("Err", c.err, c.pos, None)
            ELSE IF c.event.kind # "Characters"
            THEN Return("Err", "MalformedDocument", c.pos, None)
            ELSE
            Let(ReadEvent(evs, c.pos), LAMBDA e :
                IF ~e.ok THEN Return("Err", e.err, e.pos, None)
                ELSE IF e.event.kind # "EndElement"
                THEN Return("Err", "MalformedDocument", e.pos, None)
                ELSE Return("Ok", "", e.pos, c.event.text))))

\* reader.read_tag_contents(name)?.parse()?: value is the float, of the
\* type float.
read_float(evs, pos, name, float) ==
    Let(read_tag_contents(evs, pos, name), LAMBDA t :
        IF t.outcome # "Ok" THEN t
        ELSE Let(ParseFloat(float, t.value), LAMBDA x :
                 IF x = None THEN Return("Err", "FloatParseError", t.pos, None)
                 ELSE Return("Ok", "", t.pos, Unwrap(x))))

\* Three tags read and parsed as floats, as in deserialize_vector3 and in the
\* second form of deserialize_color3.
read_three_floats(evs, pos, names, type, float) ==
    Let(read_float(evs, pos, names[1], float), LAMBDA a :
        IF a.outcome # "Ok" THEN a
        ELSE
        Let(read_float(evs, a.pos, names[2], float), LAMBDA b :
            IF b.outcome # "Ok" THEN b
            ELSE
            Let(read_float(evs, b.pos, names[3], float), LAMBDA c :
                IF c.outcome # "Ok" THEN c
                ELSE Return("Ok", "", c.pos,
                            RbxValue(type, <<a.value, b.value, c.value>>)))))

\* deserialize_vector3: the components are f64.
deserialize_vector3(evs, pos) ==
    read_three_floats(evs, pos, <<"X", "Y", "Z">>, "Vector3", f64)

\* Unpack without the mask on the red byte.
Unpack_unmasked(packed_color) ==
    <<packed_color.hi, packed_color.lo \div 256, packed_color.lo % 256>>

\* The three bytes of a packed colour.
Unpack(packed_color) ==
    <<packed_color.hi % 256, packed_color.lo \div 256, packed_color.lo % 256>>

\* The packed form of deserialize_color3: the bytes over 255.
Color3Of(rgb) == <<<<rgb[1], 255>>, <<rgb[2], 255>>, <<rgb[3], 255>>>>

\* deserialize_color3: a packed integer, or the tags R, G and B.
deserialize_color3(evs, pos) ==
    IF pos > Len(evs) THEN Return("Err", "MalformedDocument", pos, None)
    ELSE IF evs[pos].kind = "Characters"
    THEN Let(ParseU32(evs[pos].text), LAMBDA packed_color :
             IF packed_color = None
             THEN Return("Err", "IntParseError", pos, None)
             ELSE Return("Ok", "", pos + 1,
                         RbxValue("Color3",
                                  Color3Of(Unpack(Unwrap(packed_color))))))
    ELSE read_three_floats(evs, pos, <<"R", "G", "B">>, "Color3", f32)

\* deserialize_color3uint8
deserialize_color3uint8(evs, pos) ==
    Let(ReadEvent(evs, pos), LAMBDA r :
        IF ~r.ok THEN Return("Err", r.err, r.pos, None)
        ELSE IF r.event.kind # "Characters"
        THEN Return("Err", "MalformedDocument", r.pos, None)
        ELSE Let(ParseU32(r.event.text), LAMBDA packed_color :
                 IF packed_color = None
                 THEN Return("Err", "IntParseError", r.pos, None)
                 ELSE Return("Ok", "", r.pos,
                             RbxValue("Color3uint8",
                                      Unpack(Unwrap(packed_color))))))

\* The match on property_type in deserialize_properties.
deserialize_value(evs, pos, property_type) ==
    IF property_type = "bool" THEN deserialize_bool(evs, pos)
    ELSE IF property_type = "string" THEN deserialize_string(evs, pos)
    ELSE IF property_type = "Vector3" THEN deserialize_vector3(evs, pos)
    ELSE IF property_type = "Color3" THEN deserialize_color3(evs, pos)
    ELSE IF property_type = "Color3uint8"
    THEN deserialize_color3uint8(evs, pos)
    ELSE Return("Err", "don't know how to decode this prop type", pos, None)

\* The inner loop of deserialize_properties: consumes events up to the end
\* tag named property_type.
RECURSIVE skip_to_close(_, _, _)
skip_to_close(evs, pos, property_type) ==
    Let(ReadEvent(evs, pos), LAMBDA r :
        IF ~r.ok THEN Return("Err", r.err, r.pos, None)
        ELSE IF r.event.kind = "EndElement" /\ r.event.name = property_type
        THEN Return("Ok", "", r.pos, None)
        ELSE skip_to_close(evs, r.pos, property_type))

\* deserialize_properties that skips a property element without a name.
RECURSIVE deserialize_properties_skip(_, _, _)
deserialize_properties_skip(evs, pos, props) ==
    Let(ReadEvent(evs, pos), LAMBDA r :
        IF ~r.ok THEN Return("Err", r.err, r.pos, props)
        ELSE IF r.event.kind = "StartElement"
        THEN IF r.event.pname = None
             THEN Let(skip_to_close(evs, r.pos, r.event.name), LAMBDA c :
                      IF c.outcome # "Ok"
                      THEN Return(c.outcome, c.err, c.pos, props)
                      ELSE deserialize_properties_skip(evs, c.pos, props))
             ELSE
             Let(deserialize_value(evs, r.pos, r.event.name), LAMBDA v :
                 IF v.outcome # "Ok" THEN Return(v.outcome, v.err, v.pos, props)
                 ELSE
                 Let(skip_to_close(evs, v.pos, r.event.name), LAMBDA c :
                     IF c.outcome # "Ok"
                     THEN Return(c.outcome, c.err, c.pos,
                                 MapInsert(props, Unwrap(r.event.pname),
                                           v.value))
                     ELSE deserialize_properties_skip(
                              evs, c.pos,
                              MapInsert(props, Unwrap(r.event.pname), v.value))))
        ELSE IF r.event.kind = "EndElement" /\ r.event.name = "Properties"
        THEN Return("Ok", "", r.pos, props)
        ELSE Return("panic", "", r.pos, props))

\* deserialize_properties, called after <Properties> was consumed; value is
\* the property map with the properties read added.
RECURSIVE deserialize_properties(_, _, _)
deserialize_properties(evs, pos, props) ==
    Let(ReadEvent(evs, pos), LAMBDA r :
        IF ~r.ok THEN Return("Err", r.err, r.pos, props)
        ELSE IF r.event.kind = "StartElement"
        THEN IF r.event.pname = None
             THEN Return("Err", "Missing 'name' for property tag", r.pos, props)
             ELSE
             Let(deserialize_value(evs, r.pos, r.event.name), LAMBDA v :
                 IF v.outcome # "Ok" THEN Return(v.outcome, v.err, v.pos, props)
                 ELSE
                 Let(skip_to_close(evs, v.pos, r.event.name), LAMBDA c :
                     IF c.outcome # "Ok"
                     THEN Return(c.outcome, c.err, c.pos,
                                 MapInsert(props, Unwrap(r.event.pname),
                                           v.value))
                     ELSE deserialize_properties(
                              evs, c.pos,
                              MapInsert(props, Unwrap(r.event.pname), v.value))))
        ELSE IF r.event.kind = "EndElement" /\ r.event.name = "Properties"
        THEN Return("Ok", "", r.pos, props)
        ELSE Return("panic", "", r.pos, props))

----------------------------------------------------------------------------
(* rbx_xml: decode.                                                        *)
(* The state decode works on: the position of the reader in the stream,    *)
(* the tree, the next Ref that Ref::new() hands out, the referents of      *)
(* ParseState, and the RbxInstanceProperties (name, class_name,            *)
(* properties) of the instances it made.  Three logs record what it did:   *)
(* created holds <<position of the Item start tag, id of its instance>>,   *)
(* spans holds <<position of the Item start tag, position after            *)
(* deserialize_instance returned Ok>>, and eaten holds <<position where    *)
(* eat_unknown_tag started, position after it returned Ok>>.               *)

ParseState(tree, next) ==
    [pos |-> 1, tree |-> tree, next |-> next, referents |-> EmptyMap,
     props |-> EmptyMap, created |-> <<>>, spans |-> <<>>, eaten |-> <<>>]

\* What decode and its parts hand back: the outcome, the state they left and,
\* from the loop over an Item's body, the property map.
Done(outcome, err, st, value) ==
    [outcome |-> outcome, err |-> err, st |-> st, value |-> value]

\* The reader of st moved to pos.
At(st, pos) == [st EXCEPT !.pos = pos]

\* The state after insert_instance stored the instance of the Item whose
\* start tag `start` was read at st.pos, with its RbxInstanceProperties, and
\* panicked because parent_id is not in the tree.
Stored_item(st, start, tree) ==
    [st EXCEPT
       !.pos = @ + 1,
       !.tree = tree,
       !.next = @ + 1,
       !.props = MapInsert(@, st.next,
                           [name |-> "", class_name |-> Unwrap(start.class),
                            properties |-> EmptyMap])]

\* The state after deserialize_instance inserted the instance of the Item
\* whose start tag `start` it read at st.pos.
Inserted_item(st, start, tree, instance_id) ==
    [st EXCEPT
       !.pos = @ + 1,
       !.tree = tree,
       !.next = @ + 1,
       !.referents = IF start.referent = None THEN @
                     ELSE MapInsert(@, Unwrap(start.referent), instance_id),
       !.props = MapInsert(@, instance_id,
                           [name |-> "", class_name |-> Unwrap(start.class),
                            properties |-> EmptyMap]),
       !.created = Append(@, <<st.pos, instance_id>>)]

\* Named_item that leaves the Name in the properties of the instance.
Named_item_keep(st, from, instance_id, class_name, property_map) ==
    [st EXCEPT
       !.props = MapInsert(@, instance_id,
                    [name |-> property_map["Name"].value,
                     class_name |-> class_name,
                     properties |-> property_map]),
       !.spans = Append(@, <<from, st.pos>>)]

\* The state after deserialize_instance, which started at position from,
\* wrote the name and the properties of its instance.
Named_item(st, from, instance_id, class_name, property_map) ==
    [st EXCEPT
       !.props = MapInsert(@, instance_id,
                    [name |-> property_map["Name"].value,
                     class_name |-> class_name,
                     properties |-> MapRemove(property_map, "Name")]),
       !.spans = Append(@, <<from, st.pos>>)]

RECURSIVE deserialize_instance(_, _, _)
RECURSIVE deserialize_instance_loop(_, _, _, _, _)

\* The loop of deserialize_instance over the body of the Item: it peeks at
\* the next event and only consumes an end tag itself.  value is the
\* property map.
deserialize_instance_loop(evs, st, instance_id, depth, property_map) ==
    IF st.pos > Len(evs)
    THEN Done("Err", "MalformedDocument", st, property_map)
    ELSE IF evs[st.pos].kind = "StartElement"
    THEN IF evs[st.pos].name = "Properties"
         THEN Let(deserialize_properties(evs, st.pos + 1, property_map),
                  LAMBDA p :
                  IF p.outcome # "Ok"
                  THEN Done(p.outcome, p.err, At(st, p.pos), p.value)
                  ELSE deserialize_instance_loop(evs, At(st, p.pos),
                                                 instance_id, depth + 1,
                                                 p.value))
         ELSE IF evs[st.pos].name = "Item"
         THEN Let(deserialize_instance(evs, st, instance_id), LAMBDA c :
                  IF c.outcome # "Ok"
                  THEN Done(c.outcome, c.err, c.st, property_map)
                  ELSE deserialize_instance_loop(evs, c.st, instance_id,
                                                 depth + 1, property_map))
         ELSE Done("panic", "", st, property_map)
    ELSE IF evs[st.pos].kind = "EndElement"
    THEN IF depth - 1 = 1
         THEN Done("Ok", "", At(st, st.pos + 1), property_map)
         ELSE deserialize_instance_loop(evs, At(st, st.pos + 1), instance_id,
                                        depth - 1, property_map)
    ELSE Done("diverge", "", st, property_map)

\* deserialize_instance that takes the empty string for the class of an Item
\* without a class attribute.
deserialize_instance_classless(evs, st, parent_id) ==
    Let(ReadEvent(evs, st.pos), LAMBDA r :
        IF ~r.ok THEN Done("Err", r.err, At(st, r.pos), None)
        ELSE IF r.event.kind # "StartElement"
        THEN Done("Err", "MalformedDocument", At(st, r.pos), None)
        ELSE IF r.event.name # "Item" THEN Done("panic", "", At(st, r.pos), None)
        ELSE
        Let(insert_instance(st.tree, st.next, parent_id), LAMBDA ins :
            IF ~ins.ok
            THEN Done("panic", "",
                      [st EXCEPT !.pos = r.pos, !.tree = ins.tree,
                                 !.next = @ + 1], None)
            ELSE
            Let(deserialize_instance_loop(
                    evs,
                    Inserted_item(st,
                                  IF r.event.class = None
                                  THEN [r.event EXCEPT !.class = Some("")]
                                  ELSE r.event,
                                  ins.tree, ins.ret),
                    ins.ret, 1, EmptyMap),
                LAMBDA body :
                IF body.outcome # "Ok"
                THEN Done(body.outcome, body.err, body.st, None)
                ELSE IF "Name" \notin DOMAIN body.value
                THEN Done("Err", "All instances must be named", body.st, None)
                ELSE IF body.value["Name"].type # "String"
                THEN Done("Err", "Name must be a string", body.st, None)
                ELSE IF ~Has(body.st.tree, ins.ret)
                THEN Done("panic", "", body.st, None)
                ELSE Done("Ok", "",
                          Named_item(body.st, st.pos, ins.ret,
                                     body.st.props[ins.ret].class_name,
                                     body.value),
                          None))))

\* deserialize_instance: reads the Item start tag, inserts the instance under
\* parent_id, reads the body, then takes the name out of the property map.
deserialize_instance(evs, st, parent_id) ==
    Let(ReadEvent(evs, st.pos), LAMBDA r :
        IF ~r.ok THEN Done("Err", r.err, At(st, r.pos), None)
        ELSE IF r.event.kind # "StartElement"
        THEN Done("Err", "MalformedDocument", At(st, r.pos), None)
        ELSE IF r.event.name # "Item" THEN Done("panic", "", At(st, r.pos), None)
        ELSE IF r.event.class = None
        THEN Done("Err", "Missing 'class'", At(st, r.pos), None)
        ELSE
        Let(insert_instance(st.tree, st.next, parent_id), LAMBDA ins :
            IF ~ins.ok
            THEN Done("panic", "", Stored_item(st, r.event, ins.tree), None)
            ELSE
            Let(deserialize_instance_loop(
                    evs, Inserted_item(st, r.event, ins.tree, ins.ret),
                    ins.ret, 1, EmptyMap),
                LAMBDA body :
                IF body.outcome # "Ok"
                THEN Done(body.outcome, body.err, body.st, None)
                ELSE IF "Name" \notin DOMAIN body.value
                THEN Done("Err", "All instances must be named", body.st, None)
                ELSE IF body.value["Name"].type # "String"
                THEN Done("Err", "Name must be a string", body.st, None)
                ELSE IF ~Has(body.st.tree, ins.ret)
                THEN Done("panic", "", body.st, None)
                ELSE Done("Ok", "",
                          Named_item(body.st, st.pos, ins.ret,
                                     Unwrap(r.event.class), body.value),
                          None))))

\* The loop of deserialize_root over the events inside <roblox>.
RECURSIVE deserialize_root_loop(_, _, _)
deserialize_root_loop(evs, st, parent_id) ==
    IF st.pos > Len(evs) THEN Done("Err", "MalformedDocument", st, None)
    ELSE IF evs[st.pos].kind = "StartElement"
    THEN IF evs[st.pos].name = "Item"
         THEN Let(deserialize_instance(evs, st, parent_id), LAMBDA c :
                  IF c.outcome # "Ok" THEN c
                  ELSE deserialize_root_loop(evs, c.st, parent_id))
         ELSE Let(eat_unknown_tag(evs, st.pos, 0), LAMBDA e :
                  IF e.outcome # "Ok"
                  THEN Done(e.outcome, e.err, At(st, e.pos), None)
                  ELSE deserialize_root_loop(
                           evs,
                           [st EXCEPT !.pos = e.pos,
                                      !.eaten = Append(@, <<st.pos, e.pos>>)],
                           parent_id))
    ELSE IF evs[st.pos].kind = "EndElement"
    THEN IF evs[st.pos].name = "roblox" THEN Done("Ok", "", st, None)
         ELSE Done("Err", "Unexpected closing tag", st, None)
    ELSE IF evs[st.pos].kind = "EndDocument" THEN Done("Ok", "", st, None)
    ELSE IF evs[st.pos].kind = "Error"
    THEN Done("Err", "XmlError", At(st, st.pos + 1), None)
    ELSE deserialize_root_loop(evs, At(st, st.pos + 1), parent_id)

\* deserialize_root that accepts every version attribute.
deserialize_root_any_version(evs, st, parent_id) ==
    Let(ReadEvent(evs, st.pos), LAMBDA d :
        IF ~d.ok THEN Done("Err", d.err, At(st, d.pos), None)
        ELSE IF d.event.kind # "StartDocument"
        THEN Done("Err", "MalformedDocument", At(st, d.pos), None)
        ELSE
        Let(ReadEvent(evs, d.pos), LAMBDA r :
            IF ~r.ok THEN Done("Err", r.err, At(st, r.pos), None)
            ELSE IF r.event.kind # "StartElement"
            THEN Done("Err", "MalformedDocument", At(st, r.pos), None)
            ELSE IF r.event.name # "roblox"
            THEN Done("Err", "Missing <roblox>", At(st, r.pos), None)
            ELSE IF r.event.version = None
            THEN Done("Err", "No version field", At(st, r.pos), None)
            ELSE deserialize_root_loop(evs, At(st, r.pos), parent_id)))

\* deserialize_root: StartDocument, then <roblox version="4">, then the loop.
deserialize_root(evs, st, parent_id) ==
    Let(ReadEvent(evs, st.pos), LAMBDA d :
        IF ~d.ok THEN Done("Err", d.err, At(st, d.pos), None)
        ELSE IF d.event.kind # "StartDocument"
        THEN Done("Err", "MalformedDocument", At(st, d.pos), None)
        ELSE
        Let(ReadEvent(evs, d.pos), LAMBDA r :
            IF ~r.ok THEN Done("Err", r.err, At(st, r.pos), None)
            ELSE IF r.event.kind # "StartElement"
            THEN Done("Err", "MalformedDocument", At(st, r.pos), None)
            ELSE IF r.event.name # "roblox"
            THEN Done("Err", "Missing <roblox>", At(st, r.pos), None)
            ELSE IF r.event.version # None /\ r.event.version # Some("4")
            THEN Done("Err", "Not version 4", At(st, r.pos), None)
            ELSE IF r.event.version = None
            THEN Done("Err", "No version field", At(st, r.pos), None)
            ELSE deserialize_root_loop(evs, At(st, r.pos), parent_id)))

\* decode(tree, parent_id, source), with evs the events of source and next
\* the Ref that Ref::new() hands out first.
decode(tree, next, parent_id, evs) ==
    deserialize_root(evs, ParseState(tree, next), parent_id)

----------------------------------------------------------------------------
(* The program of the second part: a document is written element by        *)
(* element, the parser's events for it are in `events`, and when the       *)
(* stream has ended decode is called once on a tree that holds a root and  *)
(* one child, with parent_id one of the two.                               *)

\* The names the Items of a document are given, in document order.
ItemNames == <<"A", "B", "C", "D">>

\* Text outside of a property element.
StrayText == "text"

IsStart(event, name) == event.kind = "StartElement" /\ event.name = name

ItemCount == Cardinality({i \in DOMAIN events : IsStart(events[i], "Item")})
NodeCount ==
    Cardinality({i \in DOMAIN events :
                    \/ IsStart(events[i], "Item")
                    \/ IsStart(events[i], "Meta")
                    \/ events[i].kind = "Characters" /\ events[i].text = StrayText})

\* The stream has ended: the parser yielded EndDocument or an error.
Ended == events # <<>> /\ Last(events).kind \in {"EndDocument", "Error"}
Writing == events # <<>> /\ ~Ended /\ result = NoResult

\* <Properties><string name="Name">text</string></Properties>
NameBlock(text) ==
    << StartElement("Properties"),
       [StartElement("string") EXCEPT !.pname = Some("Name")],
       Characters(text),
       EndElement("string"),
       EndElement("Properties") >>

\* The tree decode is called on: a root and one child.
DataModel == insert_instance(WeakDom_new(1), 2, 1).tree

InitXml ==
    /\ doms = <<DataModel>>
    /\ nextRef = 3
    /\ last = NoCall
    /\ calls = 0
    /\ events = <<StartDocument>>
    /\ open = <<>>
    /\ result = NoResult

\* The root elements of the model's documents: name and version attribute.
Roots == {<<"roblox", Some("4")>>, <<"roblox", Some("3")>>, <<"roblox", None>>,
          <<"model", Some("4")>>}

\* The root element of the document starts.
OpenRoot(name, version) ==
    /\ Writing
    /\ Len(events) = 1
    /\ events' = Append(events, [StartElement(name) EXCEPT !.version = version])
    /\ open' = <<name>>
    /\ UNCHANGED <<doms, nextRef, last, calls, result>>

\* <Item class="Folder">, with its Name when named.
OpenItem(named) ==
    /\ Writing
    /\ open # <<>>
    /\ NodeCount < MaxNodes
    /\ events' = events \o
                 <<[StartElement("Item") EXCEPT !.class = Some("Folder")]>> \o
                 (IF named THEN NameBlock(ItemNames[ItemCount + 1]) ELSE <<>>)
    /\ open' = Append(open, "Item")
    /\ UNCHANGED <<doms, nextRef, last, calls, result>>

\* An element that is neither an Item nor Properties starts.
OpenOther ==
    /\ Writing
    /\ open # <<>>
    /\ NodeCount < MaxNodes
    /\ events' = Append(events, StartElement("Meta"))
    /\ open' = Append(open, "Meta")
    /\ UNCHANGED <<doms, nextRef, last, calls, result>>

\* Text in an element; the parser coalesces adjacent text into one event.
Text ==
    /\ Writing
    /\ open # <<>>
    /\ NodeCount < MaxNodes
    /\ Last(events).kind # "Characters"
    /\ events' = Append(events, Characters(StrayText))
    /\ UNCHANGED <<doms, nextRef, last, calls, open, result>>

\* The innermost open element ends.
Close ==
    /\ Writing
    /\ open # <<>>
    /\ events' = Append(events, EndElement(Last(open)))
    /\ open' = Front(open)
    /\ UNCHANGED <<doms, nextRef, last, calls, result>>

\* The document ends after its root element.
Finish ==
    /\ Writing
    /\ Len(events) > 1
    /\ open = <<>>
    /\ events' = Append(events, EndDocument)
    /\ UNCHANGED <<doms, nextRef, last, calls, open, result>>

\* The document is malformed at this point, or cannot be read further.
Fail ==
    /\ Writing
    /\ events' = Append(events, StreamError)
    /\ UNCHANGED <<doms, nextRef, last, calls, open, result>>

\* decode(&mut tree, parent_id, source)
Decode(parent_id) ==
    /\ Ended
    /\ result = NoResult
    /\ LET d == decode(doms[1], nextRef, parent_id, events) IN
       /\ doms' = Put(doms, 1, d.st.tree)
       /\ nextRef' = d.st.next
       /\ result' = [outcome |-> d.outcome, err |-> d.err,
                     parent_id |-> parent_id, pre |-> doms[1],
                     pos |-> d.st.pos, created |-> d.st.created,
                     spans |-> d.st.spans, eaten |-> d.st.eaten,
                     props |-> d.st.props, referents |-> d.st.referents]
    /\ UNCHANGED <<last, calls, events, open>>

NextXml ==
    \/ \E root \in Roots : OpenRoot(root[1], root[2])
    \/ \E named \in BOOLEAN : OpenItem(named)
    \/ OpenOther
    \/ Text
    \/ Close
    \/ Finish
    \/ Fail
    \/ \E parent_id \in Ids(doms[1]) : Decode(parent_id)

SpecXml == InitXml /\ [][NextXml]_vars

----------------------------------------------------------------------------
(* Notions the properties of decode are stated in: the nesting of the      *)
(* document, read off its events.                                          *)

Decoded == result.outcome # "none"

\* The document is complete, and its root is <roblox version="4">.
Complete == Last(events).kind = "EndDocument"
Version4 ==
    /\ Len(events) >= 2
    /\ IsStart(events[2], "roblox")
    /\ events[2].version = Some("4")

StartTags == {i \in DOMAIN events : events[i].kind = "StartElement"}
EndTags == {i \in DOMAIN events : events[i].kind = "EndElement"}
ItemStarts == {i \in DOMAIN events : IsStart(events[i], "Item")}

\* The start tags of i..j that are not closed in i..j.
Surplus(i, j) ==
    Cardinality(StartTags \cap (i..j)) - Cardinality(EndTags \cap (i..j))

\* The end tag of the element that starts at s.
MatchingEnd(s) ==
    CHOOSE e \in EndTags :
        /\ e > s
        /\ Surplus(s, e) = 0
        /\ \A f \in EndTags : (s < f /\ f < e) => Surplus(s, f) > 0

\* The start tag of the element the event at i is directly inside.
Encloser(i) ==
    CHOOSE s \in StartTags :
        /\ s < i /\ i < MatchingEnd(s)
        /\ \A t \in StartTags : (t < i /\ i < MatchingEnd(t)) => t <= s

\* The Items directly inside <roblox>, and directly inside the Item at s.
TopLevelItems == {c \in ItemStarts : Encloser(c) = 2}
ItemsIn(s) == {c \in ItemStarts : Encloser(c) = s}

\* The instance decode made for the Item that starts at s.
IdOf(s) == (CHOOSE c \in Range(result.created) : c[1] = s)[2]

\* The instances of the Items that start at the positions S, in document
\* order.
RECURSIVE InOrder(_)
InOrder(S) ==
    IF S = {} THEN <<>>
    ELSE LET first == CHOOSE s \in S : \A t \in S : s <= t IN
         <<IdOf(first)>> \o InOrder(S \ {first})

Tree0 == result.pre
Tree1 == doms[1]

----------------------------------------------------------------------------
(* C18: the shape of the decoded tree *)

\* A complete version-4 document of Items only, each with a Properties block
\* that holds a string Name.
NamedItemsOnly ==
    /\ Complete
    /\ Version4
    /\ NodeCount = ItemCount
    /\ \A s \in ItemStarts :
          /\ IsStart(events[s + 1], "Properties")
          /\ IsStart(events[s + 2], "string")
          /\ events[s + 2].pname = Some("Name")

\* C18: decode of such a document returns Ok, makes one instance for each
\* Item, appends the top-level Items to the children of parent_id in document
\* order, and gives each Item for children the Items directly inside it, in
\* document order, each with that Item's instance for parent.
C18_TreeShape ==
    (Decoded /\ NamedItemsOnly) =>
        /\ result.outcome = "Ok"
        /\ {c[1] : c \in Range(result.created)} = ItemStarts
        /\ Len(result.created) = Cardinality(ItemStarts)
        /\ Tree1.instances[result.parent_id].children =
              Tree0.instances[result.parent_id].children \o InOrder(TopLevelItems)
        /\ \A s \in ItemStarts :
              /\ Has(Tree1, IdOf(s))
              /\ Tree1.instances[IdOf(s)].children = InOrder(ItemsIn(s))
              /\ Tree1.instances[IdOf(s)].parent =
                    Some(IF s \in TopLevelItems THEN result.parent_id
                         ELSE IdOf(Encloser(s)))

----------------------------------------------------------------------------
(* C19: the root element *)

\* The first element is not <roblox>, or has no version, or a version other
\* than "4".
BadRoot ==
    /\ Len(events) >= 2
    /\ events[2].kind = "StartElement"
    /\ (events[2].name # "roblox" \/ events[2].version # Some("4"))

\* C19: decode of a document whose first element is not <roblox>, or has no
\* version attribute, or has a version other than "4", returns an error and
\* adds no instance to the tree.
C19_BadRootRejected ==
    (Decoded /\ BadRoot) =>
        /\ result.outcome = "Err"
        /\ result.created = <<>>
        /\ Tree1 = Tree0

\* A complete document with root <roblox version="3"> that holds an Item was
\* rejected.
C19_Witness ==
    /\ Decoded
    /\ Complete
    /\ IsStart(events[2], "roblox")
    /\ events[2].version = Some("3")
    /\ ItemStarts # {}
    /\ result.outcome = "Err"

----------------------------------------------------------------------------
(* C20: elements at top level that are not Items *)

\* The positions of a span of a log: from its first event up to the event
\* before the position the reader was left at.
Span(span) == span[1]..(span[2] - 1)

\* C20: decode of a complete version-4 document with no Item directly inside
\* <roblox> returns Ok and adds no instance; every call of eat_unknown_tag
\* starts at the start tag of an element at top level and consumes the events
\* up to and including its end tag; and an Item at top level that has only
\* other elements before it is made a child of parent_id.
C20_UnknownEaten ==
    (Decoded /\ Complete /\ Version4) =>
        /\ TopLevelItems = {} =>
              /\ result.outcome = "Ok"
              /\ result.created = <<>>
              /\ Tree1 = Tree0
        /\ \A k \in DOMAIN result.eaten :
              LET from == result.eaten[k][1] IN
              /\ from \in StartTags \ ItemStarts
              /\ Encloser(from) = 2
              /\ result.eaten[k][2] = MatchingEnd(from) + 1
        /\ \A s \in TopLevelItems :
              (\A t \in TopLevelItems : s <= t) =>
                 /\ s \in {c[1] : c \in Range(result.created)}
                 /\ Tree1.instances[IdOf(s)].parent = Some(result.parent_id)
                 /\ Count(Tree1.instances[result.parent_id].children, IdOf(s)) = 1

\* An element at top level with an Item nested in it was eaten, and the Item
\* after it is the one instance decode made.
C20_Witness ==
    /\ Decoded
    /\ Complete
    /\ Version4
    /\ result.outcome = "Ok"
    /\ Len(result.created) = 1
    /\ \E k \in DOMAIN result.eaten :
          /\ Span(result.eaten[k]) \cap ItemStarts # {}
          /\ result.created[1][1] >= result.eaten[k][2]

----------------------------------------------------------------------------
(* The program of the third part: documents with properties.  The root is  *)
(* <roblox version="4">; an Item may hold a Properties block directly      *)
(* after its start tag and Items after that; a Properties block holds      *)
(* property elements, each with a name of its own.                         *)

\* A property element: its tag, its name attribute and its text content
\* (None when the start tag is directly followed by the end tag).
PropertyElement(tag, pname, text) == [tag |-> tag, pname |-> pname, text |-> text]

PropertyElements ==
    { PropertyElement("string", Some("Name"), Some("A")),
      PropertyElement("string", Some("Name"), None),
      PropertyElement("bool", Some("Name"), Some("true")),
      PropertyElement("bool", Some("Value"), Some("true")),
      PropertyElement("bool", None, Some("false")),
      PropertyElement("Color3uint8", Some("Tint"), Some("4294934592")),
      PropertyElement("double", Some("Number"), Some("12345")) }

\* The events the parser yields for a property element.
ElementEvents(p) ==
    <<[StartElement(p.tag) EXCEPT !.pname = p.pname]>> \o
    (IF p.text = None THEN <<>> ELSE <<Characters(Unwrap(p.text))>>) \o
    <<EndElement(p.tag)>>

\* The start tag of the innermost open element other than the root.
RECURSIVE OpenStart(_, _)
OpenStart(i, closed) ==
    IF events[i].kind = "EndElement" THEN OpenStart(i - 1, closed + 1)
    ELSE IF events[i].kind = "StartElement"
    THEN IF closed = 0 THEN i ELSE OpenStart(i - 1, closed - 1)
    ELSE OpenStart(i - 1, closed)

\* The start tags of the property elements of the Properties block that is
\* open.
OpenBlock == {i \in DOMAIN events : /\ i > OpenStart(Len(events), 0)
                                     /\ events[i].kind = "StartElement"}

PropCount ==
    Cardinality({i \in DOMAIN events :
                    /\ events[i].kind = "StartElement"
                    /\ events[i].name \notin {"roblox", "Item", "Properties"}})

InitProps ==
    /\ doms = <<DataModel>>
    /\ nextRef = 3
    /\ last = NoCall
    /\ calls = 0
    /\ events = <<StartDocument,
                  [StartElement("roblox") EXCEPT !.version = Some("4")]>>
    /\ open = <<"roblox">>
    /\ result = NoResult

\* <Item class="Folder"> in the root or in an Item.
OpenChild ==
    /\ Writing
    /\ open # <<>>
    /\ Last(open) # "Properties"
    /\ ItemCount < MaxItems
    /\ events' = Append(events,
                        [StartElement("Item") EXCEPT !.class = Some("Folder")])
    /\ open' = Append(open, "Item")
    /\ UNCHANGED <<doms, nextRef, last, calls, result>>

\* <Properties> directly after the start tag of an Item.
OpenProperties ==
    /\ Writing
    /\ IsStart(Last(events), "Item")
    /\ events' = Append(events, StartElement("Properties"))
    /\ open' = Append(open, "Properties")
    /\ UNCHANGED <<doms, nextRef, last, calls, result>>

\* A property element in the open Properties block.
Property(p) ==
    /\ Writing
    /\ open # <<>>
    /\ Last(open) = "Properties"
    /\ PropCount < MaxProps
    /\ \A i \in OpenBlock : events[i].pname = None \/ events[i].pname # p.pname
    /\ events' = events \o ElementEvents(p)
    /\ UNCHANGED <<doms, nextRef, last, calls, open, result>>

NextProps ==
    \/ OpenChild
    \/ OpenProperties
    \/ \E p \in PropertyElements : Property(p)
    \/ Close
    \/ Finish
    \/ \E parent_id \in Ids(doms[1]) : Decode(parent_id)

SpecProps == InitProps /\ [][NextProps]_vars

----------------------------------------------------------------------------
(* C21: the name and the properties of a decoded Item *)

\* The start tags of the property elements of the Item that starts at s.
PropertyStarts(s) ==
    IF s < Len(events) /\ IsStart(events[s + 1], "Properties")
    THEN {q \in StartTags : q > s + 1 /\ Encloser(q) = s + 1}
    ELSE {}

\* The text content of the element that starts at q.
TextAt(q) == IF events[q + 1].kind = "Characters" THEN events[q + 1].text ELSE ""

\* (p >> 16) & 0xFF, (p >> 8) & 0xFF, p & 0xFF of the packed colours of the
\* model's documents, worked out by hand.
BytesOf ==
    ("0" :> <<0, 0, 0>>) @@ ("255" :> <<0, 0, 255>>) @@
    ("65280" :> <<0, 255, 0>>) @@ ("16711680" :> <<255, 0, 0>>) @@
    ("16744512" :> <<255, 128, 64>>) @@ ("4278190080" :> <<0, 0, 0>>) @@
    ("4294934592" :> <<255, 128, 64>>) @@ ("4294967295" :> <<255, 255, 255>>) @@
    ("1" :> <<0, 0, 1>>)

\* The value the property element at q stands for.
ValueAt(q) ==
    IF events[q].name = "string" THEN RbxValue("String", TextAt(q))
    ELSE IF events[q].name = "bool" THEN RbxValue("Bool", TextAt(q) = "true")
    ELSE RbxValue("Color3uint8", BytesOf[TextAt(q)])

\* C21: after decode returned Ok, an instance made for an Item whose
\* Properties block holds a string property named Name has that string for
\* name and no key "Name" in its properties, and every other property of the
\* block is in its properties under its name attribute with its value.
C21_NameMoved ==
    (Decoded /\ result.outcome = "Ok") =>
        \A c \in Range(result.created) :
            LET instance == result.props[c[2]] IN
            (\E n \in PropertyStarts(c[1]) :
                 events[n].name = "string" /\ events[n].pname = Some("Name")) =>
            \A q \in PropertyStarts(c[1]) :
                IF events[q].pname = Some("Name")
                THEN /\ instance.name = TextAt(q)
                     /\ "Name" \notin DOMAIN instance.properties
                ELSE /\ Unwrap(events[q].pname) \in DOMAIN instance.properties
                     /\ instance.properties[Unwrap(events[q].pname)] = ValueAt(q)

\* decode returned Ok on a document with an Item that holds a Name and a
\* Color3uint8 property.
C21_Witness ==
    /\ Decoded
    /\ result.outcome = "Ok"
    /\ \E c \in Range(result.created) :
          /\ result.props[c[2]].name = "A"
          /\ \E q \in PropertyStarts(c[1]) : events[q].pname = Some("Tint")

----------------------------------------------------------------------------
(* C22: Items without a Name *)

\* The start tags of the property elements of the document.
PropertyTags ==
    {q \in StartTags :
        events[q].name \notin {"roblox", "model", "Item", "Properties", "Meta"}}

\* The property element at q has a name attribute, a tag with a codec and a
\* text its codec accepts.
Decodable(q) ==
    /\ events[q].pname # None
    /\ events[q + 1].kind = "Characters"
    /\ \/ events[q].name = "string"
       \/ events[q].name = "bool" /\ events[q + 1].text \in {"true", "false"}
       \/ events[q].name = "Color3uint8" /\ events[q + 1].text \in DOMAIN BytesOf

\* The Item that starts at s has no property named Name.
Unnamed(s) == \A q \in PropertyStarts(s) : events[q].pname # Some("Name")

\* C22: decode of a complete document whose property elements can all be
\* decoded returns Ok also when an Item has no property named Name or no
\* Properties block at all, and the instance of such an Item has the class of
\* the Item, an empty name and no key "Name" in its properties.
C22_UnnamedItem ==
    (Decoded /\ Complete /\ \A q \in PropertyTags : Decodable(q)) =>
        \A s \in ItemStarts :
            Unnamed(s) =>
                /\ result.outcome = "Ok"
                /\ \E c \in Range(result.created) :
                      /\ c[1] = s
                      /\ result.props[c[2]].class_name = Unwrap(events[s].class)
                      /\ result.props[c[2]].name = ""
                      /\ "Name" \notin DOMAIN result.props[c[2]].properties

----------------------------------------------------------------------------
(* C23: a property element without a name attribute *)

Nameless == {q \in PropertyTags : events[q].pname = None}

\* The name attributes of the property elements of the document.
PropertyNames == {Unwrap(events[q].pname) : q \in PropertyTags \ Nameless}

\* C23: decode of a document that holds a property element without a name
\* attribute in a Properties block returns an error, and no instance has a
\* property under a name that is not a name attribute of the document.
C23_NamelessRejected ==
    (Decoded /\ Nameless # {}) =>
        /\ result.outcome = "Err"
        /\ \A id \in DOMAIN result.props :
              DOMAIN result.props[id].properties \subseteq PropertyNames

\* decode met a property element without a name attribute after it decoded a
\* property, and returned the error for it.
C23_Witness ==
    /\ Decoded
    /\ \E q \in Nameless :
          /\ IsStart(events[q - 1], "Properties") \/ events[q - 1].kind = "EndElement"
          /\ \E n \in PropertyTags \ Nameless : n < q /\ Encloser(n) = Encloser(q)
    /\ result.outcome = "Err"
    /\ result.err = "Missing 'name' for property tag"

----------------------------------------------------------------------------
(* C24: property elements whose tag has no codec *)

\* The tags deserialize_properties has a codec for.
Codecs == {"bool", "string", "Vector3", "Color3", "Color3uint8"}

\* The property element at q has a name attribute and a tag without a codec.
Unknown(q) == events[q].pname # None /\ events[q].name \notin Codecs

\* Every Item of the document has a string property named Name.
AllNamed ==
    \A s \in ItemStarts :
        \E n \in PropertyStarts(s) :
            events[n].name = "string" /\ events[n].pname = Some("Name")

\* C24: decode of a complete document of named Items, in which a property
\* element has a tag without a codec and every other property element can be
\* decoded, returns Ok; the property of that element is absent from its
\* instance, and every other property is decoded.
C24_UnknownSkipped ==
    (/\ Decoded
     /\ Complete
     /\ AllNamed
     /\ \A q \in PropertyTags : Decodable(q) \/ Unknown(q)
     /\ \E q \in PropertyTags : Unknown(q)) =>
        /\ result.outcome = "Ok"
        /\ \A c \in Range(result.created) :
              \A q \in PropertyStarts(c[1]) :
                  LET properties == result.props[c[2]].properties
                      name == Unwrap(events[q].pname)
                  IN  IF Unknown(q) THEN name \notin DOMAIN properties
                      ELSE IF name = "Name"
                      THEN result.props[c[2]].name = TextAt(q)
                      ELSE /\ name \in DOMAIN properties
                           /\ properties[name] = ValueAt(q)

----------------------------------------------------------------------------
(* C25: elements in an Item that are neither Properties nor Items *)

\* The start tags of the elements that are not Items, Properties blocks or
\* property elements, and the events inside such elements.
OtherTags == {m \in StartTags : events[m].name = "Meta"}
InOther(i) == \E m \in OtherTags : m < i /\ i < MatchingEnd(m)

\* The Items decode is to make instances for.
LiveItems == {s \in ItemStarts : ~InOther(s)}

\* C25: decode of a complete version-4 document of named Items, in which an
\* Item holds an element that is neither a Properties block nor an Item,
\* returns Ok and makes the instances of the document without that element:
\* one for every Item outside of such elements, with the Items directly inside
\* it for children.
C25_UnknownChildEaten ==
    (/\ Decoded
     /\ Complete
     /\ Version4
     /\ \A i \in DOMAIN events : events[i].text # StrayText
     /\ \A s \in ItemStarts : IsStart(events[s + 1], "Properties")
     /\ \E m \in OtherTags : Encloser(m) \in LiveItems) =>
        /\ result.outcome = "Ok"
        /\ {c[1] : c \in Range(result.created)} = LiveItems
        /\ \A s \in LiveItems :
              Tree1.instances[IdOf(s)].children = InOrder(ItemsIn(s) \cap LiveItems)

----------------------------------------------------------------------------
(* rbx_xml: the codec of bool in types/bool.rs.                            *)

\* EventIterator::expect_start_with_name: consumes an event, which has to be
\* the start tag of the element called name.
expect_start_with_name(evs, pos, name) ==
    Let(ReadEvent(evs, pos), LAMBDA r :
        IF ~r.ok THEN Return("Err", r.err, r.pos, None)
        ELSE IF r.event.kind # "StartElement" \/ r.event.name # name
        THEN Return("Err", "MalformedDocument", r.pos, None)
        ELSE Return("Ok", "", r.pos, None))

\* EventIterator::expect_end_with_name: consumes an event, which has to be
\* the end tag of the element called name.
expect_end_with_name(evs, pos, name) ==
    Let(ReadEvent(evs, pos), LAMBDA r :
        IF ~r.ok THEN Return("Err", r.err, r.pos, None)
        ELSE IF r.event.kind # "EndElement" \/ r.event.name # name
        THEN Return("Err", "MalformedDocument", r.pos, None)
        ELSE Return("Ok", "", r.pos, None))

\* BoolType::write_xml that writes the value as a digit.
BoolType_write_xml_digit(name, value) ==
    << [StartElement("bool") EXCEPT !.pname = Some(name)],
       Characters(IF value THEN "1" ELSE "0"),
       EndElement("bool") >>

\* BoolType::write_xml: the events a reader yields for what it writes.
BoolType_write_xml(name, value) ==
    << [StartElement("bool") EXCEPT !.pname = Some(name)],
       Characters(IF value THEN "true" ELSE "false"),
       EndElement("bool") >>

\* BoolType::read_xml
BoolType_read_xml(evs, pos) ==
    Let(expect_start_with_name(evs, pos, "bool"), LAMBDA s :
        IF s.outcome # "Ok" THEN s
        ELSE
        Let(ReadEvent(evs, s.pos), LAMBDA r :
            IF ~r.ok THEN Return("Err", r.err, r.pos, None)
            ELSE IF r.event.kind # "Characters"
            THEN Return("Err", "MalformedDocument", r.pos, None)
            ELSE IF r.event.text \notin {"true", "false"}
            THEN Return("Err", "invalid boolean value, expected true or false",
                        r.pos, None)
            ELSE
            Let(expect_end_with_name(evs, r.pos, "bool"), LAMBDA e :
                IF e.outcome # "Ok" THEN e
                ELSE Return("Ok", "", e.pos,
                            RbxValue("Bool", r.event.text = "true")))))

----------------------------------------------------------------------------
(* The program of the fourth part: the events of one property element are  *)
(* given, or written by BoolType::write_xml; the stream may break at any   *)
(* event; then a codec reads the element.                                  *)

CodecTags == {"bool", "string", "Color3", "Color3uint8"}

CodecTexts ==
    {"true", "false", "True", "FALSE", "1", "0", "255", "65280", "16711680",
     "16744512", "4278190080", "4294934592", "4294967295", "4294967296",
     "99999999999", "-1", "12a"}

\* The elements a codec is given: every tag with every text and with none.
CodecSources ==
    {ElementEvents(PropertyElement(tag, Some("Value"), text)) :
        tag \in CodecTags, text \in {None} \cup {Some(t) : t \in CodecTexts}}

\* The texts of the components of a Vector3 or of a Color3: inside the range
\* of f32, between the ranges of f32 and of f64, past both, below both, a
\* NaN and no number.
FloatTexts == {"0.5", "1e39", "1e400", "-1e-400", "-nan", "1e"}

\* The events of a property element whose content is the three tags of
\* names, each with its text.
ComponentEvents(tag, names, texts) ==
    <<[StartElement(tag) EXCEPT !.pname = Some("Value")],
      StartElement(names[1]), Characters(texts[1]), EndElement(names[1]),
      StartElement(names[2]), Characters(texts[2]), EndElement(names[2]),
      StartElement(names[3]), Characters(texts[3]), EndElement(names[3]),
      EndElement(tag)>>

\* The elements with components that a codec is given.
FloatSources ==
    {ComponentEvents("Vector3", <<"X", "Y", "Z">>, <<x, y, "0.5">>) :
        x \in FloatTexts, y \in FloatTexts}
    \cup {ComponentEvents("Color3", <<"R", "G", "B">>, <<r, g, "0.5">>) :
        r \in FloatTexts, g \in FloatTexts}

InitCodec ==
    /\ doms = <<DataModel>>
    /\ nextRef = 3
    /\ last = NoCall
    /\ calls = 0
    /\ events \in CodecSources \cup FloatSources \cup {<<>>}
    /\ open = <<>>
    /\ result = NoResult

\* BoolType::write_xml(writer, name, value)
WriteBool(name, value) ==
    /\ events = <<>>
    /\ result = NoResult
    /\ events' = BoolType_write_xml(name, value)
    /\ UNCHANGED <<doms, nextRef, last, calls, open, result>>

\* The stream breaks at its n-th event.
Break(n) ==
    /\ events # <<>>
    /\ result = NoResult
    /\ Last(events).kind # "Error"
    /\ events' = Append(SubSeq(events, 1, n - 1), StreamError)
    /\ UNCHANGED <<doms, nextRef, last, calls, open, result>>

\* What a codec handed back.
Read(op, r) ==
    [op |-> op, outcome |-> r.outcome, err |-> r.err, pos |-> r.pos,
     value |-> r.value]

\* deserialize_properties has consumed the start tag of the element and calls
\* the codec of its tag.
ReadValue ==
    /\ events # <<>>
    /\ result = NoResult
    /\ events[1].kind = "StartElement"
    /\ result' = Read("deserialize", deserialize_value(events, 2, events[1].name))
    /\ UNCHANGED <<doms, nextRef, last, calls, events, open>>

\* BoolType::read_xml(reader) at the start of the stream.
ReadXml ==
    /\ events # <<>>
    /\ result = NoResult
    /\ result' = Read("read_xml", BoolType_read_xml(events, 1))
    /\ UNCHANGED <<doms, nextRef, last, calls, events, open>>

NextCodec ==
    \/ \E name \in {"Value", "Name"}, value \in BOOLEAN : WriteBool(name, value)
    \/ \E n \in 1..Len(events) : Break(n)
    \/ ReadValue
    \/ ReadXml

SpecCodec == InitCodec /\ [][NextCodec]_vars

\* The codec op has read the element called tag.
HasRead(op, tag) ==
    /\ result.outcome # "none"
    /\ result.op = op
    /\ IsStart(events[1], tag)

\* The text content of the element: None when the start tag is not followed by
\* text.
Content ==
    IF Len(events) >= 2 /\ events[2].kind = "Characters"
    THEN Some(events[2].text) ELSE None

----------------------------------------------------------------------------
(* C26: the codec of bool *)

\* C26: deserialize_bool and BoolType::read_xml decode the text "true" to
\* Bool(true) and the text "false" to Bool(false); they return an error for
\* every other text and for an element without text.
C26_BoolCodec ==
    /\ HasRead("deserialize", "bool") =>
          IF Content = Some("true")
          THEN result.outcome = "Ok" /\ result.value = RbxValue("Bool", TRUE)
          ELSE IF Content = Some("false")
          THEN result.outcome = "Ok" /\ result.value = RbxValue("Bool", FALSE)
          ELSE result.outcome = "Err"
    /\ HasRead("read_xml", "bool") =>
          IF Content = Some("true") /\ Len(events) = 3 /\ events[3].kind = "EndElement"
          THEN result.outcome = "Ok" /\ result.value = RbxValue("Bool", TRUE)
          ELSE IF Content = Some("false") /\ Len(events) = 3 /\ events[3].kind = "EndElement"
          THEN result.outcome = "Ok" /\ result.value = RbxValue("Bool", FALSE)
          ELSE result.outcome = "Err"

\* deserialize_bool returned an error for the text "True".
C26_Witness ==
    /\ HasRead("deserialize", "bool")
    /\ Content = Some("True")
    /\ result.outcome = "Err"
    /\ result.err = "invalid boolean value, expected true or false"

----------------------------------------------------------------------------
(* C27: the round trip of bool *)

\* C27: BoolType::read_xml on the events of BoolType::write_xml(name, b)
\* returns Bool(b) and consumes the start tag, the text and the end tag.
C27_BoolRoundTrip ==
    \A name \in {"Value", "Name"}, b \in BOOLEAN :
        (/\ result.outcome # "none"
         /\ result.op = "read_xml"
         /\ events = BoolType_write_xml(name, b)) =>
            /\ result.outcome = "Ok"
            /\ result.value = RbxValue("Bool", b)
            /\ result.pos = 4
            /\ Len(events) = 3

\* The events of write_xml("Name", false) were read back as Bool(false).
C27_Witness ==
    /\ result.outcome = "Ok"
    /\ result.op = "read_xml"
    /\ events = BoolType_write_xml("Name", FALSE)
    /\ result.value = RbxValue("Bool", FALSE)

----------------------------------------------------------------------------
(* C28: string elements without text *)

\* The property element at q is a string whose start tag is directly followed
\* by its end tag.
EmptyString(q) ==
    /\ events[q].name = "string"
    /\ events[q].pname # None
    /\ events[q + 1].kind = "EndElement"

\* C28: decode of a complete document of named Items, in which a string
\* element has no text and every other property element can be decoded,
\* returns Ok, and the element stands for the empty string: as a Name it
\* gives its instance the name "", otherwise its property is String("").
C28_EmptyString ==
    (/\ Decoded
     /\ Complete
     /\ AllNamed
     /\ \A q \in PropertyTags : Decodable(q) \/ EmptyString(q)
     /\ \E q \in PropertyTags : EmptyString(q)) =>
        /\ result.outcome = "Ok"
        /\ \A c \in Range(result.created) :
              \A q \in PropertyStarts(c[1]) :
                  EmptyString(q) =>
                      IF events[q].pname = Some("Name")
                      THEN result.props[c[2]].name = ""
                      ELSE result.props[c[2]].properties[Unwrap(events[q].pname)]
                              = RbxValue("String", "")

----------------------------------------------------------------------------
(* C29: packed colours *)

\* C29: for a text that is the decimal form of a u32 p, deserialize_color3uint8
\* returns the bytes (p >> 16) & 0xFF, (p >> 8) & 0xFF, p & 0xFF, and
\* deserialize_color3 returns these bytes over 255; for a text that is not the
\* decimal form of a u32 both return an error.
C29_PackedColor ==
    /\ (HasRead("deserialize", "Color3uint8") /\ Content # None) =>
          IF Unwrap(Content) \in DOMAIN BytesOf
          THEN /\ result.outcome = "Ok"
               /\ result.value = RbxValue("Color3uint8", BytesOf[Unwrap(Content)])
          ELSE result.outcome = "Err"
    /\ (HasRead("deserialize", "Color3") /\ Content # None) =>
          IF Unwrap(Content) \in DOMAIN BytesOf
          THEN /\ result.outcome = "Ok"
               /\ result.value =
                     RbxValue("Color3",
                              << <<BytesOf[Unwrap(Content)][1], 255>>,
                                 <<BytesOf[Unwrap(Content)][2], 255>>,
                                 <<BytesOf[Unwrap(Content)][3], 255>> >>)
          ELSE result.outcome = "Err"

\* A packed colour with bits above the 24th was decoded.
C29_Witness ==
    /\ HasRead("deserialize", "Color3uint8")
    /\ Content = Some("4294934592")
    /\ result.outcome = "Ok"
    /\ result.value = RbxValue("Color3uint8", <<255, 128, 64>>)

----------------------------------------------------------------------------
(* C30: errors of the event stream *)

\* The stream of a version-4 document yields an error before the root
\* element or inside of it.
BrokenInside ==
    /\ Last(events).kind = "Error"
    /\ \/ Len(events) = 2
       \/ Version4 /\ open # <<>>

\* C30: decode of a document whose stream yields an error before <roblox>,
\* between Items, in the body of an Item or in a Properties block returns an
\* error, and when it consumed the error of the stream it returns that error.
C30_StreamErrorReturned ==
    (Decoded /\ BrokenInside) =>
        /\ result.outcome = "Err"
        /\ result.pos > Len(events) => result.err = "XmlError"

----------------------------------------------------------------------------
(* C31: the tree after decode returned an error *)

\* The instances decode inserted, in the order it inserted them.
InsertedIds == {c[2] : c \in Range(result.created)}

\* s is a prefix of t.
IsPrefix(s, t) == Len(s) <= Len(t) /\ Take(t, Len(s)) = s

\* C31: whenever decode returns Err, every instance it inserted is stored in
\* the tree, has a parent that is in the tree and lists it exactly once, and
\* is reachable from the root; and the instances that were in the tree before
\* the call are unchanged, except that parent_id has children appended.
C31_ErrWellFormed ==
    (Decoded /\ result.outcome = "Err") =>
        /\ \A id \in InsertedIds :
              /\ Has(Tree1, id)
              /\ Tree1.instances[id].parent # None
              /\ Has(Tree1, Unwrap(Tree1.instances[id].parent))
              /\ Listed(Tree1, Unwrap(Tree1.instances[id].parent), id) = 1
              /\ id \in Below(Tree1, Tree1.root_ref)
        /\ WellLinked(Tree1)
        /\ IsTree(Tree1)
        /\ Tree1.root_ref = Tree0.root_ref
        /\ DOMAIN Tree1.instances = DOMAIN Tree0.instances \cup InsertedIds
        /\ \A id \in DOMAIN Tree0.instances :
              /\ Tree1.instances[id].parent = Tree0.instances[id].parent
              /\ IF id = result.parent_id
                 THEN IsPrefix(Tree0.instances[id].children,
                               Tree1.instances[id].children)
                 ELSE Tree1.instances[id].children =
                         Tree0.instances[id].children

\* decode returned an error after it inserted an Item and an Item inside it.
C31_Witness ==
    /\ Decoded
    /\ result.outcome = "Err"
    /\ \E id \in InsertedIds :
          /\ Has(Tree1, id)
          /\ Tree1.instances[id].parent # None
          /\ Unwrap(Tree1.instances[id].parent) \in InsertedIds

----------------------------------------------------------------------------
(* The program of the fifth part: documents of Items with attributes.  The *)
(* root is <roblox version="4">; every Item has a Properties block with a  *)
(* string Name; an Item may lack the class attribute, may have a referent  *)
(* attribute, and may have a Ref property named Value, whose text is the   *)
(* referent of an Item or "null".                                          *)

\* An Item: its class and referent attributes and the text of its Ref
\* property (None when it has none).
ItemElement(class, referent, value) ==
    [class |-> class, referent |-> referent, value |-> value]

ItemElements ==
    { ItemElement(Some("ObjectValue"), Some("a"), Some("b")),
      ItemElement(Some("ObjectValue"), Some("b"), Some("b")),
      ItemElement(Some("ObjectValue"), Some("b"), Some("a")),
      ItemElement(Some("ObjectValue"), None, Some("null")),
      ItemElement(Some("Folder"), Some("b"), None),
      ItemElement(Some("Folder"), None, None),
      ItemElement(None, Some("a"), None) }

\* <Properties><string name="Name">text</string><Ref name="Value">value</Ref>
\* </Properties>
ValueBlock(text, value) ==
    << StartElement("Properties"),
       [StartElement("string") EXCEPT !.pname = Some("Name")],
       Characters(text),
       EndElement("string") >> \o
    (IF value = None THEN <<>>
     ELSE ElementEvents(PropertyElement("Ref", Some("Value"), value))) \o
    << EndElement("Properties") >>

\* The start tag of an Item and its Properties block, in the root or in an
\* Item.
OpenObject(o) ==
    /\ Writing
    /\ open # <<>>
    /\ ItemCount < MaxItems
    /\ events' = events \o
                 <<[StartElement("Item") EXCEPT !.class = o.class,
                                                !.referent = o.referent]>> \o
                 ValueBlock(ItemNames[ItemCount + 1], o.value)
    /\ open' = Append(open, "Item")
    /\ UNCHANGED <<doms, nextRef, last, calls, result>>

NextRefs ==
    \/ \E o \in ItemElements : OpenObject(o)
    \/ Close
    \/ Finish
    \/ \E parent_id \in Ids(doms[1]) : Decode(parent_id)

SpecRefs == InitProps /\ [][NextRefs]_vars

----------------------------------------------------------------------------
(* C32: an Item without a class *)

\* The Items whose start tag has no class attribute.
Classless == {s \in ItemStarts : events[s].class = None}

\* The property elements with the tag Ref.
RefStarts == {q \in DOMAIN events : IsStart(events[q], "Ref")}

\* C32: decode of a document with an Item whose start tag has no class
\* attribute returns an error, and makes no instance for that Item: the tree
\* holds the instances it held before and one for each Item with a class
\* that was read before the error.  When no property element before that
\* Item is one decode rejects, the error is the one about the class.
C32_MissingClass ==
    (Decoded /\ Classless # {}) =>
        LET first == CHOOSE s \in Classless : \A t \in Classless : s <= t IN
        /\ result.outcome = "Err"
        /\ \A c \in Range(result.created) : c[1] \notin Classless
        /\ DOMAIN Tree1.instances = DOMAIN Tree0.instances \cup InsertedIds
        /\ Cardinality(InsertedIds) = Len(result.created)
        /\ (\A q \in RefStarts : q > first) =>
              /\ result.err = "Missing 'class'"
              /\ result.pos = first + 1
              /\ {c[1] : c \in Range(result.created)} =
                    {s \in ItemStarts : s < first}

\* decode returned the error about the class at an Item without a class that
\* is inside an Item it made an instance for.
C32_Witness ==
    /\ Decoded
    /\ result.outcome = "Err"
    /\ result.err = "Missing 'class'"
    /\ Len(result.created) = 1
    /\ \E s \in Classless : s > 3 /\ Encloser(s) = result.created[1][1]

----------------------------------------------------------------------------
(* C33: Ref properties *)

\* The Item that has the property element at q in its Properties block.
Owner(q) == Encloser(Encloser(q))

\* The Items whose referent attribute is the token.
Referred(token) == {s \in ItemStarts : events[s].referent = Some(token)}

\* No two Items of the document have the same referent.
DistinctReferents ==
    \A s, t \in ItemStarts :
        (s # t /\ events[s].referent # None) =>
            events[s].referent # events[t].referent

\* C33: after a decode that returned Ok, of a document whose Items have
\* distinct referents, every Ref property whose text is the referent of an
\* Item of the document holds the id of that Item's instance, whether the
\* Item starts before or after the property.
C33_RefsResolved ==
    (Decoded /\ result.outcome = "Ok" /\ DistinctReferents) =>
        \A q \in RefStarts :
            \A s \in Referred(events[q + 1].text) :
               /\ Owner(q) \in {c[1] : c \in Range(result.created)}
               /\ s \in {c[1] : c \in Range(result.created)}
               /\ Unwrap(events[q].pname) \in
                     DOMAIN result.props[IdOf(Owner(q))].properties
               /\ result.props[IdOf(Owner(q))].properties[Unwrap(events[q].pname)]
                     = RbxValue("Ref", IdOf(s))

\* The match on property_type in deserialize_properties has no arm for Ref:
\* no decode of a document with a Ref property returns Ok.
RefsRejected == (Decoded /\ RefStarts # {}) => result.outcome # "Ok"

\* A decode of a document with a Ref property whose text is the referent of
\* an Item returned Ok.
RefsDecoded ==
    /\ Decoded
    /\ result.outcome = "Ok"
    /\ \E q \in RefStarts : Referred(events[q + 1].text) # {}

----------------------------------------------------------------------------
(* The program of the sixth part: decode, one loop iteration at a time.    *)
(* A document is written as in the second part; then decode is called and  *)
(* runs: the head of deserialize_root, then the loops of deserialize_root  *)
(* and deserialize_instance, each iteration in two steps: reader.peek(),   *)
(* then the arm of the match.  While the call runs, result holds its       *)
(* ParseState, the frames of the calls of deserialize_instance that are in *)
(* their loop (the innermost last), and the position in the iteration.     *)
(* deserialize_properties and eat_unknown_tag consume an event in every    *)
(* iteration of their loops and are taken in one step.                     *)

\* The head of deserialize_root: StartDocument, then <roblox version="4">.
deserialize_root_head(evs, st) ==
    Let(ReadEvent(evs, st.pos), LAMBDA d :
        IF ~d.ok THEN Done("Err", d.err, At(st, d.pos), None)
        ELSE IF d.event.kind # "StartDocument"
        THEN Done("Err", "MalformedDocument", At(st, d.pos), None)
        ELSE
        Let(ReadEvent(evs, d.pos), LAMBDA r :
            IF ~r.ok THEN Done("Err", r.err, At(st, r.pos), None)
            ELSE IF r.event.kind # "StartElement"
            THEN Done("Err", "MalformedDocument", At(st, r.pos), None)
            ELSE IF r.event.name # "roblox"
            THEN Done("Err", "Missing <roblox>", At(st, r.pos), None)
            ELSE IF r.event.version # None /\ r.event.version # Some("4")
            THEN Done("Err", "Not version 4", At(st, r.pos), None)
            ELSE IF r.event.version = None
            THEN Done("Err", "No version field", At(st, r.pos), None)
            ELSE Done("Ok", "", At(st, r.pos), None)))

\* The locals of a call of deserialize_instance that enters its loop: the
\* position of its start tag, instance_id, class_name, depth, property_map.
Frame(from, instance_id, class_name) ==
    [from |-> from, instance_id |-> instance_id, class_name |-> class_name,
     depth |-> 1, property_map |-> EmptyMap]

\* deserialize_instance up to its loop; value is the frame.
deserialize_instance_head(evs, st, parent_id) ==
    Let(ReadEvent(evs, st.pos), LAMBDA r :
        IF ~r.ok THEN Done("Err", r.err, At(st, r.pos), None)
        ELSE IF r.event.kind # "StartElement"
        THEN Done("Err", "MalformedDocument", At(st, r.pos), None)
        ELSE IF r.event.name # "Item" THEN Done("panic", "", At(st, r.pos), None)
        ELSE IF r.event.class = None
        THEN Done("Err", "Missing 'class'", At(st, r.pos), None)
        ELSE
        Let(insert_instance(st.tree, st.next, parent_id), LAMBDA ins :
            IF ~ins.ok
            THEN Done("panic", "", Stored_item(st, r.event, ins.tree), None)
            ELSE Done("Ok", "", Inserted_item(st, r.event, ins.tree, ins.ret),
                      Frame(st.pos, ins.ret, Unwrap(r.event.class)))))

\* deserialize_instance after its loop.
deserialize_instance_tail(st, frame) ==
    IF "Name" \notin DOMAIN frame.property_map
    THEN Done("Err", "All instances must be named", st, None)
    ELSE IF frame.property_map["Name"].type # "String"
    THEN Done("Err", "Name must be a string", st, None)
    ELSE IF ~Has(st.tree, frame.instance_id) THEN Done("panic", "", st, None)
    ELSE Done("Ok", "",
              Named_item(st, frame.from, frame.instance_id, frame.class_name,
                         frame.property_map),
              None)

\* Where the call of decode is after an iteration: outcome is "running"
\* while it is in a loop.
Step(outcome, err, st, frames) ==
    [outcome |-> outcome, err |-> err, st |-> st, frames |-> frames]

\* A call of deserialize_instance was made from a loop whose frames are
\* frames: it entered its loop, or it returned an error.
Enter(head, frames) ==
    IF head.outcome = "Ok"
    THEN Step("running", "", head.st, Append(frames, head.value))
    ELSE Step(head.outcome, head.err, head.st, frames)

\* A part of the call that is not a loop came to its end (the head of
\* deserialize_root, or deserialize_instance after its loop): the call goes
\* on in the loop with the frames frames, or it returns an error.
Continue(part, frames) ==
    IF part.outcome = "Ok" THEN Step("running", "", part.st, frames)
    ELSE Step(part.outcome, part.err, part.st, frames)

\* One iteration of the loop of deserialize_root.
deserialize_root_iteration(evs, st, parent_id) ==
    IF st.pos > Len(evs) THEN Step("Err", "MalformedDocument", st, <<>>)
    ELSE IF evs[st.pos].kind = "StartElement"
    THEN IF evs[st.pos].name = "Item"
         THEN Enter(deserialize_instance_head(evs, st, parent_id), <<>>)
         ELSE Let(eat_unknown_tag(evs, st.pos, 0), LAMBDA e :
                  IF e.outcome # "Ok"
                  THEN Step(e.outcome, e.err, At(st, e.pos), <<>>)
                  ELSE Step("running", "",
                            [st EXCEPT !.pos = e.pos,
                                       !.eaten = Append(@, <<st.pos, e.pos>>)],
                            <<>>))
    ELSE IF evs[st.pos].kind = "EndElement"
    THEN IF evs[st.pos].name = "roblox" THEN Step("Ok", "", st, <<>>)
         ELSE Step("Err", "Unexpected closing tag", st, <<>>)
    ELSE IF evs[st.pos].kind = "EndDocument" THEN Step("Ok", "", st, <<>>)
    ELSE IF evs[st.pos].kind = "Error"
    THEN Step("Err", "XmlError", At(st, st.pos + 1), <<>>)
    ELSE Step("running", "", At(st, st.pos + 1), <<>>)

\* One iteration of the loop of the call of deserialize_instance with the
\* locals frame, called from the loop with the frames callers.
deserialize_instance_iteration(evs, st, callers, frame) ==
    IF st.pos > Len(evs)
    THEN Step("Err", "MalformedDocument", st, Append(callers, frame))
    ELSE IF evs[st.pos].kind = "StartElement"
    THEN IF evs[st.pos].name = "Properties"
         THEN Let(deserialize_properties(evs, st.pos + 1, frame.property_map),
                  LAMBDA p :
                  IF p.outcome # "Ok"
                  THEN Step(p.outcome, p.err, At(st, p.pos),
                            Append(callers, frame))
                  ELSE Step("running", "", At(st, p.pos),
                            Append(callers,
                                   [frame EXCEPT !.depth = @ + 1,
                                                 !.property_map = p.value])))
         ELSE IF evs[st.pos].name = "Item"
         THEN Enter(deserialize_instance_head(evs, st, frame.instance_id),
                    Append(callers, [frame EXCEPT !.depth = @ + 1]))
         ELSE Step("panic", "", st, Append(callers, frame))
    ELSE IF evs[st.pos].kind = "EndElement"
    THEN IF frame.depth - 1 = 1
         THEN Continue(deserialize_instance_tail(At(st, st.pos + 1), frame),
                       callers)
         ELSE Step("running", "", At(st, st.pos + 1),
                   Append(callers, [frame EXCEPT !.depth = @ - 1]))
    ELSE Step("running", "", st, Append(callers, frame))

\* One iteration of the loop the call is in.
iteration(evs, run) ==
    IF run.frames = <<>>
    THEN deserialize_root_iteration(evs, run.st, run.parent_id)
    ELSE deserialize_instance_iteration(evs, run.st, Front(run.frames),
                                        Last(run.frames))

\* result after a step of the call decode(tree, parent_id, source) that was
\* made on the tree pre.
Run(step, parent_id, pre) ==
    IF step.outcome = "running"
    THEN [outcome |-> "running", err |-> "", parent_id |-> parent_id,
          pre |-> pre, pc |-> "peek", st |-> step.st, frames |-> step.frames]
    ELSE [outcome |-> step.outcome, err |-> step.err,
          parent_id |-> parent_id, pre |-> pre,
          pos |-> step.st.pos, created |-> step.st.created,
          spans |-> step.st.spans, eaten |-> step.st.eaten,
          props |-> step.st.props, referents |-> step.st.referents]

InLoop == result.outcome = "running"

\* decode(&mut tree, parent_id, source) is called and runs up to the loop of
\* deserialize_root.
Begin(parent_id) ==
    /\ Ended
    /\ result = NoResult
    /\ result' = Run(Continue(deserialize_root_head(
                                  events, ParseState(doms[1], nextRef)),
                              <<>>),
                     parent_id, doms[1])
    /\ UNCHANGED <<doms, nextRef, last, calls, events, open>>

\* reader.peek()
Peek ==
    /\ InLoop
    /\ result.pc = "peek"
    /\ result' = [result EXCEPT !.pc = "match"]
    /\ UNCHANGED <<doms, nextRef, last, calls, events, open>>

\* The arm of the match on the event peeked at.
Match ==
    /\ InLoop
    /\ result.pc = "match"
    /\ LET step == iteration(events, result) IN
       /\ doms' = Put(doms, 1, step.st.tree)
       /\ nextRef' = step.st.next
       /\ result' = Run(step, result.parent_id, result.pre)
    /\ UNCHANGED <<last, calls, events, open>>

NextSteps ==
    \/ \E root \in Roots : OpenRoot(root[1], root[2])
    \/ \E named \in BOOLEAN : OpenItem(named)
    \/ OpenOther
    \/ Text
    \/ Close
    \/ Finish
    \/ Fail
    \/ \E parent_id \in Ids(doms[1]) : Begin(parent_id)
    \/ Peek
    \/ Match

SpecSteps == InitXml /\ [][NextSteps]_vars

\* The caller that holds a finished source calls decode, and the call, once
\* made, keeps running.
FairSteps ==
    /\ SpecSteps
    /\ WF_vars(\E parent_id \in Ids(doms[1]) : Begin(parent_id))
    /\ WF_vars(Peek)
    /\ WF_vars(Match)

----------------------------------------------------------------------------
(* C34: decode comes to an end *)

\* The call of decode has come to an end: it returned Ok or Err, or it
\* panicked.
Returned == result.outcome \in {"Ok", "Err", "panic"}

\* C34: on every finite stream of events, well formed or not, the call of
\* decode comes to an end: the loops of deserialize_root and
\* deserialize_instance consume an event or are left in every iteration.
C34_DecodeTerminates == Ended ~> Returned

----------------------------------------------------------------------------
(* C35: the events a call of deserialize_instance consumes *)

\* C35: in a complete document, every call of deserialize_instance that
\* returned Ok started at the start tag of an Item and left the reader
\* directly after the end tag of that Item.
C35_ItemSpan ==
    (Decoded /\ Complete) =>
        \A k \in DOMAIN result.spans :
            /\ result.spans[k][1] \in ItemStarts
            /\ result.spans[k][2] = MatchingEnd(result.spans[k][1]) + 1

----------------------------------------------------------------------------
(* C36: panics *)

\* C36: for every stream of events, the call of decode does not panic.
C36_NeverPanics == Decoded => result.outcome # "panic"

----------------------------------------------------------------------------
(* The program of the seventh part: descendants, one step of the iterator  *)
(* at a time.  The caller makes up to MaxSetup calls of the public         *)
(* operations, each returning normally, and then runs                      *)
(* `for instance in doms[d].descendants(id)`; the DOM is borrowed for as   *)
(* long as the iterator lives, so nothing else is called.  last holds the  *)
(* iterator: the DOM and id it was made for, ids_to_visit, the id popped   *)
(* in the iteration of next that is under way, and what next returned      *)
(* last.                                                                   *)

\* The calls made before the iterator, and the length ids_to_visit is
\* followed up to.
MaxSetup == 3
MaxStack == 3

Iterator(d, id, ids_to_visit, pc, popped, ret) ==
    [op |-> "Descendants::next", outcome |-> "ok", dom |-> d, id |-> id,
     ids_to_visit |-> ids_to_visit, pc |-> pc, popped |-> popped, ret |-> ret]

Iterating == last.op = "Descendants::next"

\* doms[d].descendants(id), for an id that is in the DOM.
Iterate(d, id) ==
    /\ Running
    /\ Has(doms[d], id)
    /\ last' = Iterator(d, id, doms[d].instances[id].children, "pop",
                        NullRef, None)
    /\ UNCHANGED <<doms, nextRef, calls, xmlvars>>

\* Descendants::next: `while let Some(id) = self.ids_to_visit.pop()`, and
\* `None` after the loop.
Pop ==
    /\ Iterating
    /\ last.pc = "pop"
    /\ last' = IF last.ids_to_visit = <<>>
               THEN [last EXCEPT !.pc = "done", !.ret = None]
               ELSE [last EXCEPT !.pc = "visit",
                                 !.popped = Last(last.ids_to_visit),
                                 !.ids_to_visit = Front(last.ids_to_visit)]
    /\ UNCHANGED <<doms, nextRef, calls, xmlvars>>

\* Descendants::next: the body of the loop.  The children of the instance
\* popped are pushed and the instance is returned, and the for loop calls
\* next again; an id with no instance is passed over.
Visit ==
    /\ Iterating
    /\ last.pc = "visit"
    /\ LET t == doms[last.dom] IN
       IF Has(t, last.popped)
       THEN /\ Len(last.ids_to_visit) + Len(t.instances[last.popped].children)
                  <= MaxStack
            /\ last' = [last EXCEPT
                          !.pc = "pop",
                          !.ids_to_visit = @ \o t.instances[last.popped].children,
                          !.ret = Some(last.popped)]
       ELSE last' = [last EXCEPT !.pc = "pop"]
    /\ UNCHANGED <<doms, nextRef, calls, xmlvars>>

\* The caller makes one more call before it makes the iterator.
CanSetup == Running /\ calls < MaxSetup

NextIter ==
    \/ CanSetup /\ New
    \/ CanSetup /\ \E d \in Live, p \in Args : InsertInstance(d, p)
    \/ CanSetup /\ \E d \in Live, id \in Args, p \in Args : SetParent(d, id, p)
    \/ CanSetup /\ \E s \in Live, d \in Live, id \in Args, p \in Args :
                      MoveInstance(s, id, d, p)
    \/ CanSetup /\ \E d \in Live, id \in Args : RemoveInstance(d, id)
    \/ CanSetup /\ \E d \in Live : \E id \in Sortable(d) :
                      \E key \in KeyFunctions(doms[d].instances[id].children) :
                         SortChildrenByKey(d, id, key)
    \/ CanSetup /\ \E d \in Live : \E id \in Sortable(d) :
                      \E key \in KeyFunctions(doms[d].instances[id].children) :
                         SortChildrenUnstableByKey(d, id, key)
    \/ Running /\ \E d \in Live, id \in Args : Iterate(d, id)
    \/ Pop
    \/ Visit

SpecIter == Init /\ [][NextIter]_vars

\* The for loop over the iterator keeps running.
FairIter == SpecIter /\ WF_vars(Pop) /\ WF_vars(Visit)

----------------------------------------------------------------------------
(* C37: the iteration over descendants comes to an end *)

\* next returned None.
Exhausted == Iterating /\ last.pc = "done"

\* C37: on every DOM made by calls of the public operations that returned
\* normally, and for every id in it, the iteration over descendants(id)
\* comes to an end: next returns None after finitely many calls.
C37_DescendantsTerminates == Iterating ~> Exhausted

----------------------------------------------------------------------------
(* rbx_dom_test: TreeViewer.                                               *)
(* The viewer reads a WeakDom through root_ref, root, get_by_ref and the   *)
(* fields name, class, properties and children of an instance.  A property *)
(* value is a Variant; the viewer tells Variant::Ref from every other.     *)

Variant(type, value) == [type |-> type, value |-> value]
Variant_Ref(ref_id) == Variant("Ref", ref_id)
Variant_Int32(n) == Variant("Int32", n)

\* InstanceBuilder::new(class).with_name(name)
InstanceBuilder(class, name) == [class |-> class, name |-> name]

\* The instance a builder with no children makes, under the Ref drawn.
Instance(referent, builder, parent) ==
    [referent |-> referent, name |-> builder.name, class |-> builder.class,
     properties |-> EmptyMap, children |-> <<>>, parent |-> parent]

\* WeakDom::new(builder), given the Ref drawn for the root.
WeakDom_from_builder(referent, builder) ==
    [instances |-> MapInsert(EmptyMap, referent,
                             Instance(referent, builder, NullRef)),
     root_ref |-> referent]

\* WeakDom::insert(parent_ref, builder), given the Ref drawn, for a
\* parent_ref that is in the DOM: the instance goes at the tail of the
\* parent's children.
WeakDom_insert(t, parent_ref, referent, builder) ==
    [t EXCEPT
       !.instances = MapInsert(
           [@ EXCEPT ![parent_ref].children = Append(@, referent)],
           referent, Instance(referent, builder, parent_ref))]

\* instance.properties.insert(key, value) on tree.get_by_ref_mut(id)
properties_insert(t, id, key, value) ==
    [t EXCEPT !.instances[id].properties = MapInsert(@, key, value)]

\* WeakDom::get_by_ref
get_by_ref(t, id) == IF Has(t, id) THEN Some(t.instances[id]) ELSE None

\* format!("id-{}", next_id)
Label(next_id) == "id-" \o ToString(next_id)

\* TreeViewer::new.  handed logs the labels in the order populate_id_map
\* made them; panicked says that an unwrap of a call on the viewer failed.
TreeViewer_new ==
    [id_map |-> EmptyMap, next_id |-> 0, handed |-> <<>>, panicked |-> FALSE]

\* ViewedValue
ViewedValue_Ref(id_str) == [kind |-> "Ref", value |-> id_str]
ViewedValue_Other(other) == [kind |-> "Other", value |-> other]

\* ViewedInstance
ViewedInstance(id, name, class_name, properties, children) ==
    [id |-> id, name |-> name, class_name |-> class_name,
     properties |-> properties, children |-> children]

RECURSIVE populate_id_map(_, _, _)
RECURSIVE populate_each(_, _, _)
RECURSIVE view_instance(_, _, _)

\* self.id_map.insert(id, format!("id-{}", self.next_id)); self.next_id += 1
label_instance(viewer, id) ==
    [viewer EXCEPT
       !.id_map = MapInsert(@, id, Label(viewer.next_id)),
       !.next_id = @ + 1,
       !.handed = Append(@, Label(viewer.next_id))]

\* populate_id_map whose label is made from the Ref of the instance.
populate_id_map_by_ref(viewer, tree, id) ==
    IF viewer.panicked THEN viewer
    ELSE Let([viewer EXCEPT
                !.id_map = MapInsert(@, id, Label(id)),
                !.next_id = @ + 1,
                !.handed = Append(@, Label(id))],
             LAMBDA labelled :
             IF get_by_ref(tree, id) = None
             THEN [labelled EXCEPT !.panicked = TRUE]
             ELSE populate_each(labelled, tree,
                                Unwrap(get_by_ref(tree, id)).children))

\* populate_id_map: labels the instance, then its children in their order,
\* each with its descendants.
populate_id_map(viewer, tree, id) ==
    IF viewer.panicked THEN viewer
    ELSE Let(label_instance(viewer, id), LAMBDA labelled :
             IF get_by_ref(tree, id) = None
             THEN [labelled EXCEPT !.panicked = TRUE]
             ELSE populate_each(labelled, tree,
                                Unwrap(get_by_ref(tree, id)).children))

\* for id in children { self.populate_id_map(tree, id) }
populate_each(viewer, tree, children) ==
    IF children = <<>> THEN viewer
    ELSE populate_each(populate_id_map(viewer, tree, Head(children)), tree,
                       Tail(children))

\* The match on a property value in view_instance.
view_value(viewer, value) ==
    IF value.type = "Ref"
    THEN IF value.value \in DOMAIN viewer.id_map
         THEN ViewedValue_Ref(viewer.id_map[value.value])
         ELSE ViewedValue_Ref("[unknown ID]")
    ELSE ViewedValue_Other(value)

\* A Vec of results collected: None when one of them is a panic.
Collect(options) ==
    IF \E i \in DOMAIN options : options[i] = None THEN None
    ELSE Some([i \in DOMAIN options |-> Unwrap(options[i])])

\* view_instance: Some(ViewedInstance), or None when an unwrap panics.
view_instance(viewer, tree, id) ==
    IF get_by_ref(tree, id) = None THEN None
    ELSE Let(Unwrap(get_by_ref(tree, id)), LAMBDA instance :
         Let(Collect([i \in DOMAIN instance.children |->
                        view_instance(viewer, tree, instance.children[i])]),
             LAMBDA children :
             IF children = None \/ id \notin DOMAIN viewer.id_map THEN None
             ELSE Some(ViewedInstance(
                      viewer.id_map[id], instance.name, instance.class,
                      [key \in DOMAIN instance.properties |->
                          view_value(viewer, instance.properties[key])],
                      Unwrap(children)))))

\* What a call on the viewer leaves: the viewer and what it returned.
Viewed(viewer, ret) ==
    IF viewer.panicked \/ ret = None
    THEN [outcome |-> "panic", viewer |-> [viewer EXCEPT !.panicked = TRUE],
          ret |-> None]
    ELSE [outcome |-> "ok", viewer |-> viewer, ret |-> ret]

\* TreeViewer::view
view(viewer, tree) ==
    Let(populate_id_map(viewer, tree, tree.root_ref), LAMBDA populated :
        IF populated.panicked THEN Viewed(populated, None)
        ELSE Viewed(populated, view_instance(populated, tree, tree.root_ref)))

\* view_children that labels each subtree right before it renders it.
RECURSIVE view_each(_, _, _, _)
view_each(viewer, tree, children, views) ==
    IF children = <<>> THEN Viewed(viewer, Some(views))
    ELSE Let(populate_id_map(viewer, tree, Head(children)), LAMBDA populated :
         Let(view_instance(populated, tree, Head(children)), LAMBDA v :
             IF populated.panicked \/ v = None THEN Viewed(populated, None)
             ELSE view_each(populated, tree, Tail(children),
                            Append(views, Unwrap(v)))))

view_children_one_by_one(viewer, tree) ==
    view_each(viewer, tree, tree.instances[tree.root_ref].children, <<>>)

\* TreeViewer::view_children: labels the subtree of every child of the
\* root, then renders each.
view_children(viewer, tree) ==
    Let(tree.instances[tree.root_ref].children, LAMBDA children :
    Let(populate_each(viewer, tree, children), LAMBDA populated :
        IF populated.panicked THEN Viewed(populated, None)
        ELSE Viewed(populated,
                    Collect([i \in DOMAIN children |->
                               view_instance(populated, tree, children[i])]))))

----------------------------------------------------------------------------
(* The program of the eighth part: a DOM is built with WeakDom::new,       *)
(* insert and properties.insert, and one TreeViewer views it with view and *)
(* view_children, between the calls that build it.  doms[1] is the DOM;    *)
(* last holds the viewer, what its last call returned, the DOM that call   *)
(* saw, and whether the viewer was fresh when the call was made.           *)

MaxInstances == 4   \* instances of the DOM viewed
MaxRefProps == 1    \* calls of properties.insert
MaxViews == 2       \* calls of view and view_children on the viewer

\* The Refs of the instances, and one more Ref that Ref::new() handed out
\* for no instance of the DOM.
ViewRefs == 1..MaxInstances
Foreign == MaxInstances + 1

\* InstanceBuilder::new("Folder").with_name(format!("Child {}", i))
ChildBuilder(i) == InstanceBuilder("Folder", "Child " \o ToString(i))

Viewing(op, viewed, pre, fresh) ==
    [op |-> op, outcome |-> viewed.outcome, viewer |-> viewed.viewer,
     ret |-> viewed.ret, pre |-> pre, fresh |-> fresh]

InitView ==
    /\ doms = <<WeakDom_from_builder(1, InstanceBuilder("ObjectValue", "Root"))>>
    /\ nextRef = 2
    /\ last = Viewing("TreeViewer::new",
                      [outcome |-> "ok", viewer |-> TreeViewer_new,
                       ret |-> None], <<>>, TRUE)
    /\ calls = 0
    /\ events = <<>>
    /\ open = <<>>
    /\ result = NoResult

\* No call on the viewer has panicked, and the caller goes on.
Building == last.outcome = "ok"

\* The number of properties of the instances of t.
PropertyCount(t) ==
    Cardinality({id \in DOMAIN t.instances :
                    t.instances[id].properties # EmptyMap})

\* tree.insert(parent_ref, builder)
Insert(parent_ref) ==
    /\ Building
    /\ nextRef <= MaxInstances
    /\ Has(doms[1], parent_ref)
    /\ doms' = <<WeakDom_insert(doms[1], parent_ref, NewRef,
                                ChildBuilder(nextRef - 2))>>
    /\ nextRef' = nextRef + 1
    /\ UNCHANGED <<last, calls, xmlvars>>

\* The values a property is given: a Ref to an instance of the DOM, the null
\* Ref, a Ref to no instance of the DOM, and a value that is no Ref.
PropertyValues ==
    {Variant_Ref(r) : r \in DOMAIN doms[1].instances \cup {NullRef, Foreign}}
        \cup {Variant_Int32(7)}

\* instance.properties.insert("Value".to_owned(), value), on an instance
\* that has no property yet.
SetProperty(id, value) ==
    /\ Building
    /\ Has(doms[1], id)
    /\ doms[1].instances[id].properties = EmptyMap
    /\ PropertyCount(doms[1]) < MaxRefProps
    /\ doms' = <<properties_insert(doms[1], id, "Value", value)>>
    /\ UNCHANGED <<nextRef, last, calls, xmlvars>>

\* viewer.view(&tree)
View ==
    /\ Building
    /\ calls < MaxViews
    /\ last' = Viewing("TreeViewer::view", view(last.viewer, doms[1]),
                       doms[1], last.viewer = TreeViewer_new)
    /\ calls' = calls + 1
    /\ UNCHANGED <<doms, nextRef, xmlvars>>

\* viewer.view_children(&tree)
ViewChildren ==
    /\ Building
    /\ calls < MaxViews
    /\ last' = Viewing("TreeViewer::view_children",
                       view_children(last.viewer, doms[1]), doms[1],
                       last.viewer = TreeViewer_new)
    /\ calls' = calls + 1
    /\ UNCHANGED <<doms, nextRef, xmlvars>>

NextView ==
    \/ \E parent_ref \in ViewRefs : Insert(parent_ref)
    \/ \E id \in ViewRefs : \E value \in PropertyValues : SetProperty(id, value)
    \/ View
    \/ ViewChildren

SpecView == InitView /\ [][NextView]_vars

----------------------------------------------------------------------------
(* C38: the labels of a view *)

\* The sequences of seqs one after the other.
RECURSIVE Flat(_)
Flat(seqs) == IF seqs = <<>> THEN <<>> ELSE Head(seqs) \o Flat(Tail(seqs))

\* The Refs of the instance id and of its descendants in pre-order over
\* children order: the instance first, then each child with all its
\* descendants before the next child.
RECURSIVE PreOrderRefs(_, _)
PreOrderRefs(tree, id) ==
    <<id>> \o Flat([i \in DOMAIN tree.instances[id].children |->
                      PreOrderRefs(tree, tree.instances[id].children[i])])

\* The ids of a ViewedInstance and of the ViewedInstances below it, in the
\* same order.
RECURSIVE PreOrderLabels(_)
PreOrderLabels(viewed) ==
    <<viewed.id>> \o Flat([i \in DOMAIN viewed.children |->
                             PreOrderLabels(viewed.children[i])])

\* The DOM that differs from tree only in its Ref values: every Ref r other
\* than the null Ref is f[r].
RenameRef(f, r) == IF r \in DOMAIN f THEN f[r] ELSE r
RenameValue(f, value) ==
    IF value.type = "Ref" THEN Variant_Ref(RenameRef(f, value.value))
    ELSE value
RenameInstance(f, instance) ==
    [referent |-> RenameRef(f, instance.referent),
     name |-> instance.name,
     class |-> instance.class,
     properties |-> [key \in DOMAIN instance.properties |->
                        RenameValue(f, instance.properties[key])],
     children |-> [i \in DOMAIN instance.children |->
                      RenameRef(f, instance.children[i])],
     parent |-> RenameRef(f, instance.parent)]
Rename(f, tree) ==
    [instances |->
        [q \in {f[r] : r \in DOMAIN tree.instances} |->
            RenameInstance(f, tree.instances[
                CHOOSE r \in DOMAIN tree.instances : f[r] = q])],
     root_ref |-> f[tree.root_ref]]

\* The ways to give the Refs other values.
Renamings == Permutations(1..Foreign)

\* The last call was view, on a viewer that was fresh.
FreshView == last.op = "TreeViewer::view" /\ last.fresh

\* C38: view on a fresh viewer labels the instances "id-0", "id-1", ... in
\* pre-order over children order, so what it returns is the same for every
\* DOM that differs from the one viewed only in its Ref values; and no label
\* is handed out twice by one viewer, whatever calls are made on it.
C38_ViewLabels ==
    /\ FreshView =>
          LET refs == PreOrderRefs(last.pre, last.pre.root_ref) IN
          /\ last.outcome = "ok"
          /\ Range(refs) = DOMAIN last.pre.instances
          /\ \A i \in DOMAIN refs : last.viewer.id_map[refs[i]] = Label(i - 1)
          /\ PreOrderLabels(Unwrap(last.ret)) =
                 [i \in DOMAIN refs |-> Label(i - 1)]
          /\ \A f \in Renamings :
                 view(TreeViewer_new, Rename(f, last.pre)).ret = last.ret
    /\ NoDuplicates(last.viewer.handed)

\* A fresh viewer viewed a DOM of four instances where the pre-order is not
\* the order in which the instances were inserted and where a property holds
\* a Ref to an instance.
C38_Witness ==
    /\ FreshView
    /\ last.outcome = "ok"
    /\ PreOrderRefs(last.pre, last.pre.root_ref) = <<1, 2, 4, 3>>
    /\ PreOrderLabels(Unwrap(last.ret)) = <<"id-0", "id-1", "id-2", "id-3">>
    /\ \E id \in DOMAIN last.pre.instances :
          /\ "Value" \in DOMAIN last.pre.instances[id].properties
          /\ last.pre.instances[id].properties["Value"] = Variant_Ref(4)

----------------------------------------------------------------------------
(* C39: how a Ref is rendered *)

\* A ViewedInstance and the ViewedInstances below it, in pre-order.
RECURSIVE PreOrderViewed(_)
PreOrderViewed(viewed) ==
    <<viewed>> \o Flat([i \in DOMAIN viewed.children |->
                          PreOrderViewed(viewed.children[i])])

\* The last call on the viewer was view or view_children, and it returned.
ViewReturned ==
    /\ last.op \in {"TreeViewer::view", "TreeViewer::view_children"}
    /\ last.outcome = "ok"

\* The Refs of the instances the last call viewed, and the ViewedInstances
\* it returned for them, in the same order.
LastRefs ==
    IF last.op = "TreeViewer::view"
    THEN PreOrderRefs(last.pre, last.pre.root_ref)
    ELSE Flat([i \in DOMAIN last.pre.instances[last.pre.root_ref].children |->
                 PreOrderRefs(last.pre,
                     last.pre.instances[last.pre.root_ref].children[i])])
LastViewed ==
    IF last.op = "TreeViewer::view"
    THEN PreOrderViewed(Unwrap(last.ret))
    ELSE Flat([i \in DOMAIN Unwrap(last.ret) |->
                 PreOrderViewed(Unwrap(last.ret)[i])])

\* shown is ViewedValue::Ref(id_str)
ShownAs(shown, id_str) == shown.kind = "Ref" /\ shown.value = id_str

\* C39: in what view and view_children return, a property that holds a Ref
\* is rendered as the label of the instance the Ref points to when this
\* viewer labelled that instance: for an instance viewed by the call, the id
\* of its ViewedInstance (its own id for a Ref of an instance to itself, and
\* also for an instance under a later child of the root in view_children);
\* it is rendered as "[unknown ID]" when the Ref is null or points to an
\* instance this viewer never labelled.  Every other value is kept.
C39_RefRendering ==
    ViewReturned =>
        /\ Len(LastViewed) = Len(LastRefs)
        /\ \A i \in DOMAIN LastRefs :
              LET instance == last.pre.instances[LastRefs[i]]
                  shown == LastViewed[i].properties
              IN
              /\ DOMAIN shown = DOMAIN instance.properties
              /\ \A key \in DOMAIN instance.properties :
                    LET value == instance.properties[key] IN
                    IF value.type # "Ref"
                    THEN shown[key].kind = "Other" /\ shown[key].value = value
                    ELSE IF value.value \in Range(LastRefs)
                    THEN \A j \in DOMAIN LastRefs :
                            LastRefs[j] = value.value =>
                                ShownAs(shown[key], LastViewed[j].id)
                    ELSE IF value.value \in DOMAIN last.viewer.id_map
                    THEN ShownAs(shown[key], last.viewer.id_map[value.value])
                    ELSE ShownAs(shown[key], "[unknown ID]")

\* view_children returned the views of two children of the root, where the
\* first child holds a Ref to the second: it is rendered as the label of the
\* second.
C39_Witness ==
    /\ last.op = "TreeViewer::view_children"
    /\ last.outcome = "ok"
    /\ last.fresh
    /\ last.pre.instances[last.pre.root_ref].children = <<2, 3>>
    /\ LastRefs = <<2, 3>>
    /\ "Value" \in DOMAIN last.pre.instances[2].properties
    /\ last.pre.instances[2].properties["Value"] = Variant_Ref(3)
    /\ ShownAs(Unwrap(last.ret)[1].properties["Value"], "id-1")
    /\ Unwrap(last.ret)[2].id = "id-1"

============================================================================
